---- MODULE Spec2Model ----
(***************************************************************************)
(* keypad-mapper: the HID protocol codec (pack/unpack), the request        *)
(* framing (sendRequest / recvResponse), the protocol operations of        *)
(* api.ts and the KeypadImpl session of keypad.ts, as a state machine.     *)
(*                                                                         *)
(* Buffers and request arrays are sequences of bytes; the code's 0-based   *)
(* offset o is index o + 1 here.  A function of the code that can throw    *)
(* returns Ok(value) or Err(message).                                      *)
(***************************************************************************)
EXTENDS Integers, Sequences, FiniteSets, TLC

\* ------------------------------------------------------------------ bounds
MaxLayers == 3          \* largest value given to setLayers
MaxKeys == 2            \* largest info.keys
MaxKnobs == 1           \* largest info.knobs
MaxRx == 6              \* input reports the transport keeps queued
MaxDefs == 2            \* entries per layer of a key definition table
MaxCalls == 4           \* calls made on one session before its handle is released
MaxText == 5            \* lexemes of a text given to parseKeyMapFromKeyText

\* ------------------------------------------------------- program constants
REQUEST_SIZE == 65
defaultLayers == 3
ReadTimeout == 250
MaxKeyActions == 18

KeyMapTypes == [keys |-> 1, consumer |-> 2, mouse |-> 3]
packetReadKeypadInfo == <<3, 251, 251, 251>>
packetEnd == <<3, 253, 254, 255>>

\* ----------------------------------------------------------------- results
Ok(v) == [ok |-> TRUE, val |-> v]
Err(e) == [ok |-> FALSE, err |-> e]

\* ------------------------------------------------------------ byte helpers
Zeros(n) == [i \in 1..n |-> 0]

\* Buffer.readUInt8(offset): defined only inside the buffer
InRange(buffer, offset) == offset >= 0 /\ offset < Len(buffer)
readUInt8(buffer, offset) == buffer[offset + 1]
readInt8(buffer, offset) ==
    IF buffer[offset + 1] >= 128 THEN buffer[offset + 1] - 256 ELSE buffer[offset + 1]
readUInt16LE(buffer, offset) == buffer[offset + 1] + 256 * buffer[offset + 2]

\* (v >> 8) & 0xFF and v & 0xFF, for v >= 0
splitUInt16LE(v) == <<v % 256, (v \div 256) % 256>>

\* toInt8: clamp into [-128, 127], then store as an unsigned byte
toInt8Wrap(n) == n % 256

toInt8(n) ==
    IF n >= 0 THEN (IF n <= 127 THEN n ELSE 127)
    ELSE LET d == 256 + n IN
         IF d >= 128 /\ d <= 255 THEN d ELSE 128

\* fromInt8: writeUInt8(n & 0xFF), then readInt8
fromInt8(n) ==
    LET b == n % 256 IN IF b >= 128 THEN b - 256 ELSE b

\* --------------------------------------------------------------- pack/unpack
RECURSIVE PackPairs(_)
PackPairsKeyCodeFirst(keys) ==
    IF keys = <<>> THEN <<>>
    ELSE <<Head(keys).keyCode, Head(keys).modKey>> \o PackPairs(Tail(keys))

PackPairs(keys) ==
    IF keys = <<>> THEN <<>>
    ELSE <<Head(keys).modKey, Head(keys).keyCode>> \o PackPairs(Tail(keys))

packKeyActrionsOneMore(keys) ==
    IF Len(keys) < 0 \/ Len(keys) > MaxKeyActions + 1
    THEN Err("Invalid size")
    ELSE Ok(<<Len(keys)>> \o PackPairs(keys))

packKeyActrions(keys) ==
    IF Len(keys) < 0 \/ Len(keys) > MaxKeyActions
    THEN Err("Invalid size")
    ELSE Ok(<<Len(keys)>> \o PackPairs(keys))

unpackKeyActions(buffer) ==
    IF ~InRange(buffer, 10) THEN Err("RangeError")
    ELSE LET len == readInt8(buffer, 10) IN
         IF len > 0 /\ ~InRange(buffer, 11 + 2 * (len - 1) + 1) THEN Err("RangeError")
         ELSE Ok([i \in 1..len |->
                    [modKey |-> readUInt8(buffer, 11 + 2 * (i - 1)),
                     keyCode |-> readUInt8(buffer, 11 + 2 * (i - 1) + 1)]])

packConsumerAction(action) == <<1>> \o splitUInt16LE(action.id)

unpackConsumerActionBigEndian(buffer) ==
    IF ~InRange(buffer, 12) THEN Err("RangeError")
    ELSE Ok([id |-> 256 * readUInt8(buffer, 11) + readUInt8(buffer, 12)])

unpackConsumerAction(buffer) ==
    IF ~InRange(buffer, 12) THEN Err("RangeError")
    ELSE Ok([id |-> readUInt16LE(buffer, 11)])

packMouseActionButtonFirst(action) ==
    <<4, action.button, action.modKey, action.x, action.y, action.wheel>>

packMouseAction(action) ==
    <<4, action.modKey, action.button, action.x, action.y, action.wheel>>

unpackMouseAction(buffer) ==
    IF ~InRange(buffer, 15) THEN Err("RangeError")
    ELSE Ok([modKey |-> readUInt8(buffer, 11), button |-> readUInt8(buffer, 12),
             x |-> readUInt8(buffer, 13), y |-> readUInt8(buffer, 14),
             wheel |-> readUInt8(buffer, 15)])

isKeyMapKeys(keyMap) == keyMap.type = KeyMapTypes.keys
isKeyMapConsumer(keyMap) == keyMap.type = KeyMapTypes.consumer
isKeyMapMouse(keyMap) == keyMap.type = KeyMapTypes.mouse

createKeyMapKeys(keys) == [type |-> KeyMapTypes.keys, keys |-> keys]
createKeyMapConsumer(action) == [type |-> KeyMapTypes.consumer, consumer |-> action]
createKeyMapMouse(action) == [type |-> KeyMapTypes.mouse, mouse |-> action]

packKeyMapShortReserved(keyMap) ==
    LET data == IF isKeyMapKeys(keyMap) THEN packKeyActrions(keyMap.keys)
                ELSE IF isKeyMapConsumer(keyMap) THEN Ok(packConsumerAction(keyMap.consumer))
                ELSE IF isKeyMapMouse(keyMap) THEN Ok(packMouseAction(keyMap.mouse))
                ELSE Err("Unsupported KeyMap type")
    IN  IF data.ok THEN Ok(<<keyMap.type, 0, 0, 0, 0>> \o data.val) ELSE data

packKeyMap(keyMap) ==
    LET data == IF isKeyMapKeys(keyMap) THEN packKeyActrions(keyMap.keys)
                ELSE IF isKeyMapConsumer(keyMap) THEN Ok(packConsumerAction(keyMap.consumer))
                ELSE IF isKeyMapMouse(keyMap) THEN Ok(packMouseAction(keyMap.mouse))
                ELSE Err("Unsupported KeyMap type")
    IN  IF data.ok THEN Ok(<<keyMap.type, 0, 0, 0, 0, 0>> \o data.val) ELSE data

unpackKeyMapWithIdPayloadOnly(buffer) ==
    IF ~InRange(buffer, 4) THEN Err("RangeError")
    ELSE LET keyId == readUInt8(buffer, 2)
             layerId == readUInt8(buffer, 3)
             type == readUInt8(buffer, 4)
             WithId(keyMap) == Ok([layerId |-> layerId, keyId |-> keyId, keyMap |-> keyMap])
         IN  IF type = KeyMapTypes.keys THEN
                 LET keys == unpackKeyActions(buffer) IN
                 IF keys.ok THEN WithId([type |-> type, keys |-> keys.val]) ELSE keys
             ELSE IF type = KeyMapTypes.consumer THEN
                 LET consumer == unpackConsumerAction(buffer) IN
                 IF consumer.ok THEN WithId([type |-> type, consumer |-> consumer.val]) ELSE consumer
             ELSE IF type = KeyMapTypes.mouse THEN
                 LET mouse == unpackMouseAction(buffer) IN
                 IF mouse.ok THEN WithId([type |-> type, mouse |-> mouse.val]) ELSE mouse
             ELSE WithId([type |-> type, buffer |-> SubSeq(buffer, 5, Len(buffer))])

unpackKeyMapWithId(buffer) ==
    IF ~InRange(buffer, 4) THEN Err("RangeError")
    ELSE LET keyId == readUInt8(buffer, 2)
             layerId == readUInt8(buffer, 3)
             type == readUInt8(buffer, 4)
             WithId(keyMap) == Ok([layerId |-> layerId, keyId |-> keyId, keyMap |-> keyMap])
         IN  IF type = KeyMapTypes.keys THEN
                 LET keys == unpackKeyActions(buffer) IN
                 IF keys.ok THEN WithId([type |-> type, keys |-> keys.val]) ELSE keys
             ELSE IF type = KeyMapTypes.consumer THEN
                 LET consumer == unpackConsumerAction(buffer) IN
                 IF consumer.ok THEN WithId([type |-> type, consumer |-> consumer.val]) ELSE consumer
             ELSE IF type = KeyMapTypes.mouse THEN
                 LET mouse == unpackMouseAction(buffer) IN
                 IF mouse.ok THEN WithId([type |-> type, mouse |-> mouse.val]) ELSE mouse
             ELSE WithId([type |-> type, buffer |-> buffer])

\* ------------------------------------------------------------ packet builders
getKeyCount(info) == info.keys + 3 * info.knobs

packReadKeypadKeyMaps(param) == <<3, 250, param.keys, param.knobs, param.layerId>>

packWriteKeypadKeyMapParamLayerFirst(param) ==
    <<3, 253, param.layerId, param.keyId>> \o param.data

packWriteKeypadKeyMapParam(param) == <<3, 253, param.keyId, param.layerId>> \o param.data

packWriteKeypadLedParamModeHigh(param) ==
    LET ledId == (param.ledModeId * 16) + param.ledColorId
    IN  <<3, 254, 176, 1, 8, 0, 0, 0, 0, 0, param.layerId, 0, ledId>>

packWriteKeypadLedParam(param) ==
    LET ledId == (param.ledColorId * 16) + param.ledModeId
    IN  <<3, 254, 176, 1, 8, 0, 0, 0, 0, 0, param.layerId, 0, ledId>>

packWriteKeypadDelayTimeParam(param) ==
    LET timeBytes == splitUInt16LE(param.delayTimeMs)
    IN  <<3, 254, 176, 1, 5>> \o timeBytes \o <<0, 0, 0, 1, 0, 36>>

\* sendRequest: the array handed to hid.write
PadRequestNone(request) == request

PadRequest(request) == request \o Zeros(REQUEST_SIZE - Len(request))

\* --------------------------------------------------- knobs and modifier keys
KnobActions == [Left |-> 0, Click |-> 1, Right |-> 2]
Undefined == [undefined |-> TRUE]

findKnobActionName(action) ==
    IF \E name \in DOMAIN KnobActions : KnobActions[name] = action
    THEN CHOOSE name \in DOMAIN KnobActions : KnobActions[name] = action
    ELSE Undefined

getKeyIdForKnob(info, knobId, knobAction) == 1 + info.keys + 3 * (knobId - 1) + knobAction

getKnobByKeyIdBelowKeys(info, keyId) ==
    IF keyId < info.keys THEN Undefined
    ELSE LET knob == keyId - 1 - info.keys
             actionIndex == knob % 3
             knobId == 1 + (knob - actionIndex) \div 3
         IN  [knobId |-> knobId, knobAction |-> findKnobActionName(actionIndex)]

getKnobByKeyId(info, keyId) ==
    IF keyId <= info.keys THEN Undefined
    ELSE LET knob == keyId - 1 - info.keys
             actionIndex == knob % 3
             knobId == 1 + (knob - actionIndex) \div 3
         IN  [knobId |-> knobId, knobAction |-> findKnobActionName(actionIndex)]

ModKey ==
    [Ctrl |-> 1, Shift |-> 2, Alt |-> 4, Gui |-> 8,
     RCtrl |-> 16, RShift |-> 32, RAlt |-> 64, RGui |-> 128]

\* a | b for non-negative integers
RECURSIVE BitOr(_, _)
BitOr(a, b) ==
    IF a = 0 THEN b
    ELSE IF b = 0 THEN a
    ELSE (IF a % 2 = 1 \/ b % 2 = 1 THEN 1 ELSE 0) + 2 * BitOr(a \div 2, b \div 2)

\* a value that is a number, as opposed to Undefined
Defined(v) == [defined |-> v]

\* property names every object literal inherits from Object.prototype
ObjectPrototypeKeys ==
    {"constructor", "toString", "valueOf", "hasOwnProperty", "__proto__"}

\* what record[name] yields for one of them: a function or object, not a number
Inherited == [inherited |-> TRUE]

\* record[name] on an object literal: own property, inherited property, or undefined
JsGet(record, name) ==
    IF name \in DOMAIN record THEN Defined(record[name])
    ELSE IF name \in ObjectPrototypeKeys THEN Inherited
    ELSE Undefined

\* Object.entries(ModKey): insertion order
ModKeyEntries == <<"Ctrl", "Shift", "Alt", "Gui", "RCtrl", "RShift", "RAlt", "RGui">>

\* a & b for non-negative integers
RECURSIVE BitAnd(_, _)
BitAnd(a, b) ==
    IF a = 0 \/ b = 0 THEN 0
    ELSE (IF a % 2 = 1 /\ b % 2 = 1 THEN 1 ELSE 0) + 2 * BitAnd(a \div 2, b \div 2)

RECURSIVE NamesFrom(_, _)
NamesFrom(i, modKey) ==
    IF i > Len(ModKeyEntries) THEN <<>>
    ELSE (IF BitAnd(ModKey[ModKeyEntries[i]], modKey) # 0 THEN <<ModKeyEntries[i]>> ELSE <<>>)
         \o NamesFrom(i + 1, modKey)

getModKeyNames(modKey) == NamesFrom(1, modKey)

\* modKey |= code: a function or object converts to NaN and then to 0
ToInt32(code) == IF code = Inherited THEN 0 ELSE code.defined

RECURSIVE FoldModKey(_, _, _)
FoldModKey(names, i, modKey) ==
    IF i > Len(names) THEN Defined(modKey)
    ELSE LET code == JsGet(ModKey, names[i]) IN
         IF code = Undefined THEN Undefined
         ELSE FoldModKey(names, i + 1, BitOr(modKey, ToInt32(code)))

createModKey(names) == FoldModKey(names, 1, 0)

applyModKeyAdd(action, modKey) ==
    [action EXCEPT !.modKey = action.modKey + modKey]

\* { ...action, modKey: action.modKey | modKey }
applyModKey(action, modKey) ==
    [action EXCEPT !.modKey = BitOr(action.modKey, modKey)]

Shift(key) == applyModKey(key, ModKey.Shift)
Ctrl(key) == applyModKey(key, ModKey.Ctrl)
Alt(key) == applyModKey(key, ModKey.Alt)
Gui(key) == applyModKey(key, ModKey.Gui)
RShift(key) == applyModKey(key, ModKey.RShift)
RCtrl(key) == applyModKey(key, ModKey.RCtrl)
RAlt(key) == applyModKey(key, ModKey.RAlt)
RGui(key) == applyModKey(key, ModKey.RGui)

\* ------------------------------------------------------------ cli-impl.ts
ConfigurationError == Err("ConfigurationError")

\* (KnobActions as Record<string, KnobActionType | undefined>)[action]
findKnobAction(action) == JsGet(KnobActions, action)

\* number + function: JavaScript concatenates the two as strings
JsConcat(n, v) == [string |-> <<n, v>>]

\* options.<name> != null
Given(options, name) == name \in DOMAIN options

\* the options object: a field is present only if the option was given
OptionsOf(keyId, knobId, knobAction) ==
    LET names == (IF keyId # <<>> THEN {"keyId"} ELSE {})
                 \cup (IF knobId # <<>> THEN {"knobId"} ELSE {})
                 \cup (IF knobAction # <<>> THEN {"knobAction"} ELSE {})
    IN  [f \in names |-> IF f = "keyId" THEN keyId[1]
                         ELSE IF f = "knobId" THEN knobId[1] ELSE knobAction[1]]

resolveKeyId(info, options) ==
    IF Given(options, "keyId") THEN
        IF options.keyId <= 0 \/ options.keyId > getKeyCount(info)
        THEN ConfigurationError
        ELSE Ok(options.keyId)
    ELSE IF ~Given(options, "knobId") \/ ~Given(options, "knobAction") THEN ConfigurationError
    ELSE LET action == findKnobAction(options.knobAction) IN
         IF action = Undefined THEN ConfigurationError
         ELSE IF options.knobId <= 0 \/ options.knobId > info.knobs THEN ConfigurationError
         ELSE IF action = Inherited
         THEN Ok(JsConcat(1 + info.keys + 3 * (options.knobId - 1), action))
         ELSE Ok(getKeyIdForKnob(info, options.knobId, action.defined))

\* ------------------------------------------------------------- input samples
\* KeyAction i of a generated list: every position differs from its neighbours
KeyActionAt(m0, k0, i) == [modKey |-> (m0 + i) % 256, keyCode |-> (k0 + 3 * i) % 256]
KeyActionList(n, m0, k0) == [i \in 1..n |-> KeyActionAt(m0, k0, i)]

MouseButtonLeft == 1
emptyMouseAction == [modKey |-> 0, button |-> 0, x |-> 0, y |-> 0, wheel |-> 0]

\* { ...emptyMouseAction, ...mouseAction }
Mouse(mouseAction) ==
    [f \in DOMAIN emptyMouseAction |->
        IF f \in DOMAIN mouseAction THEN mouseAction[f] ELSE emptyMouseAction[f]]

Wheel(wheel, modKey) == Mouse([modKey |-> modKey, wheel |-> toInt8(wheel)])
Move(x, y) == Mouse([x |-> toInt8(x), y |-> toInt8(y)])

WheelUp == Wheel(1, 0)
WheelDown == Wheel(-1, 0)
LButton == Mouse([button |-> MouseButtonLeft])
MoveUp == Move(0, -1)

\* keymaps the device holds, by payload type (0 is a type the codec does not know)
DeviceKeyMaps ==
    << createKeyMapKeys(<<[modKey |-> 1, keyCode |-> 18]>>),
       createKeyMapConsumer([id |-> 402]),
       createKeyMapMouse(WheelDown),
       createKeyMapKeys(KeyActionList(2, 0, 4)) >>

DeviceBody(layer, key) ==
    LET n == (layer + key) % (Len(DeviceKeyMaps) + 1)
    IN  IF n = 0 THEN <<0>> ELSE packKeyMap(DeviceKeyMaps[n]).val

\* ------------------------------------------------------------ text parsing
\* a text is a sequence of lexemes: names, "+" and " " (one whitespace
\* character); two names never stand side by side
createKeyAction(keyCode, modKey) == [keyCode |-> keyCode, modKey |-> modKey]

\* entries of the generated key record, of mouse and of media
keyRecord == [A |-> createKeyAction(4, 0), B |-> createKeyAction(5, 0)]
mouseRecord == [LButton |-> LButton, WheelUp |-> WheelUp]
mediaRecord == [Mute |-> [id |-> 226], MyComputer |-> [id |-> 404]]

findKeyAction(name) == JsGet(keyRecord, name)
findMouseAction(name) == JsGet(mouseRecord, name)
findConsumerAction(name) == JsGet(mediaRecord, name)

isActionDefOfKeyAction(keyDef) == "keyCode" \in DOMAIN keyDef
isActionDefOfConsumerAction(keyDef) == "id" \in DOMAIN keyDef

\* index of the first lexeme of text at or after i that is (not) in seps, else Len + 1
RECURSIVE IndexFrom(_, _, _, _)
IndexFrom(text, i, seps, member) ==
    IF i > Len(text) THEN Len(text) + 1
    ELSE IF (text[i] \in seps) = member THEN i
    ELSE IndexFrom(text, i + 1, seps, member)

\* text.split(/\s+/): a run of whitespace is one separator
RECURSIVE SplitWhitespace(_)
SplitWhitespace(text) ==
    LET i == IndexFrom(text, 1, {" "}, TRUE) IN
    IF i > Len(text) THEN <<text>>
    ELSE <<SubSeq(text, 1, i - 1)>>
         \o SplitWhitespace(SubSeq(text, IndexFrom(text, i, {" "}, FALSE), Len(text)))

\* the string between two separators: empty, or one name
NameOf(part) == IF part = <<>> THEN "" ELSE part[1]

\* text.split('+'): every '+' is a separator
RECURSIVE SplitPlus(_)
SplitPlus(text) ==
    LET i == IndexFrom(text, 1, {"+"}, TRUE) IN
    IF i > Len(text) THEN <<NameOf(text)>>
    ELSE <<NameOf(SubSeq(text, 1, i - 1))>> \o SplitPlus(SubSeq(text, i + 1, Len(text)))

\* applyModKey on what a lookup returned: spreading a function copies nothing
\* and its modKey is undefined
ApplyModKeyTo(found, modKey) ==
    IF found = Inherited THEN [modKey |-> modKey] ELSE applyModKey(found.defined, modKey)

parseActionFromText(text) ==
    IF Len(text) = 0 THEN ConfigurationError
    ELSE LET names == SplitPlus(text)
             name == names[Len(names)]
             modKey == createModKey(SubSeq(names, 1, Len(names) - 1))
         IN  IF modKey = Undefined THEN ConfigurationError
             ELSE IF findKeyAction(name) # Undefined
             THEN Ok(ApplyModKeyTo(findKeyAction(name), modKey.defined))
             ELSE IF findMouseAction(name) # Undefined
             THEN Ok(ApplyModKeyTo(findMouseAction(name), modKey.defined))
             ELSE IF findConsumerAction(name) # Undefined /\ modKey.defined = 0
             THEN Ok(IF findConsumerAction(name) = Inherited THEN Inherited
                     ELSE findConsumerAction(name).defined)
             ELSE ConfigurationError

\* the elements of actions of one kind, in order
RECURSIVE SelectActions(_, _)
SelectActions(actions, kind) ==
    IF actions = <<>> THEN <<>>
    ELSE LET action == Head(actions)
             is == IF isActionDefOfKeyAction(action) THEN "key"
                   ELSE IF isActionDefOfConsumerAction(action) THEN "consumer"
                   ELSE "mouse"
         IN  (IF is = kind THEN <<action>> ELSE <<>>) \o SelectActions(Tail(actions), kind)

parseKeyMapFromKeyText(text) ==
    LET actionTexts == SplitWhitespace(text)
        parsed == [i \in 1..Len(actionTexts) |-> parseActionFromText(actionTexts[i])]
    IN  IF \E i \in 1..Len(parsed) : ~parsed[i].ok THEN ConfigurationError
        ELSE LET actions == [i \in 1..Len(parsed) |-> parsed[i].val]
                 keyActions == SelectActions(actions, "key")
                 consumerActions == SelectActions(actions, "consumer")
                 mouseActions == SelectActions(actions, "mouse")
             IN  IF Len(keyActions) # 0 THEN
                     IF Len(mouseActions) # 0 \/ Len(consumerActions) # 0
                     THEN ConfigurationError
                     ELSE Ok(createKeyMapKeys(keyActions))
                 ELSE IF Len(consumerActions) # 0 THEN
                     IF Len(mouseActions) # 0 THEN ConfigurationError
                     ELSE IF Len(consumerActions) > 1 THEN ConfigurationError
                     ELSE Ok(createKeyMapConsumer(consumerActions[1]))
                 ELSE IF Len(mouseActions) > 1 THEN ConfigurationError
                 ELSE Ok(createKeyMapMouse(mouseActions[1]))

\* ---------------------------------------------------------- JS sparse arrays
EmptyArray == [i \in {} |-> 0]
ArraySet(a, i, v) == [x \in (DOMAIN a) \cup {i} |-> IF x = i THEN v ELSE a[x]]

\* ---------------------------------------------------------------------- state
VARIABLES
    layers,     \* KeypadImpl.layers
    info,       \* KeypadImpl.info
    handle,     \* the withHid scope of the session: "open" or "released"
    op,         \* the operation called last
    pc,         \* where that operation stands
    loc,        \* its local variables
    result,     \* what it returned (Ok) or threw (Err)
    hidLog,     \* the hid.write / hid.read calls it made, in order
    inflight,   \* hid.write calls started and not yet completed
    overlap,    \* some hid call was started while another was in flight
    calls,      \* calls made on the session so far
    rx,         \* input reports queued by the device, not yet read
    cpc,        \* codec checks: position
    cin,        \* codec checks: input
    cmid,       \* codec checks: intermediate value
    cout        \* codec checks: output

sessionVars == <<calls, layers, info, handle, op, pc, loc, result, hidLog, inflight, overlap, rx>>
codecVars == <<cpc, cin, cmid, cout>>
vars == <<calls, layers, info, handle, op, pc, loc, result, hidLog, inflight, overlap, rx,
          cpc, cin, cmid, cout>>

Pending == Err("pending")
NoLoc == [ret |-> "none"]

InitSession ==
    /\ layers = defaultLayers
    /\ info = [keys |-> 0, knobs |-> 0]
    /\ handle = "open"
    /\ op = "none"
    /\ pc = "done"
    /\ loc = NoLoc
    /\ result = Pending
    /\ hidLog = <<>>
    /\ inflight = <<>>
    /\ overlap = FALSE
    /\ rx = <<>>
    /\ calls = 0

InitCodecIdle ==
    /\ cpc = "idle"
    /\ cin = <<>>
    /\ cmid = <<>>
    /\ cout = <<>>

Init == InitSession /\ InitCodecIdle

\* ----------------------------------------------------------------- the device
WriteEntry(request) == [call |-> "write", arg |-> PadRequest(request)]
ReadEntry(buffer) == [call |-> "read", arg |-> ReadTimeout, ret |-> buffer]

\* reports the device queues in answer to a completed request; it may deliver
\* fewer than the slots asked for, or all of them in descending key order
DeviceReplies(req) ==
    IF Len(req) >= 5 /\ req[2] = 250
    THEN LET count == req[3] + 3 * req[4] IN
         { [k \in 1..n |-> [cmd |-> "fa", layer |-> req[5], key |-> k, stale |-> FALSE]] :
             n \in 0..count }
         \cup { [k \in 1..count |->
                   [cmd |-> "fa", layer |-> req[5], key |-> count + 1 - k, stale |-> FALSE]] }
    ELSE IF Len(req) >= 2 /\ req[2] = 251
    THEN { <<>>, <<[cmd |-> "fb", layer |-> 0, key |-> 0, stale |-> FALSE]>> }
    ELSE { <<>> }

Enqueue(q, reply) == SubSeq(q \o reply, 1, IF Len(q \o reply) > MaxRx THEN MaxRx ELSE Len(q \o reply))

MarkStale(q) == [i \in 1..Len(q) |-> [q[i] EXCEPT !.stale = TRUE]]

OtherLayer(layer) == (layer % MaxLayers) + 1

\* the buffers hid.read(250) can resolve with: empty on timeout
ReadBuffers ==
    IF rx = <<>> THEN { <<>> }
    ELSE IF Head(rx).cmd = "fb"
    THEN { PadRequest(<<3, 251, k, n>>) : k \in 0..MaxKeys, n \in 0..MaxKnobs }
    ELSE { PadRequest(<<3, 250, Head(rx).key, l>> \o DeviceBody(Head(rx).layer, Head(rx).key)) :
             l \in {Head(rx).layer, OtherLayer(Head(rx).layer)} }

RxAfterRead == IF rx = <<>> THEN rx ELSE Tail(rx)

\* -------------------------------------------------------------- raw I/O
\* sendRequest: pad, then hid.write
HidWrite(log, pending, request) ==
    /\ hidLog' = Append(log, WriteEntry(request))
    /\ inflight' = Append(pending, PadRequest(request))
    /\ overlap' = (overlap \/ pending # <<>>)

\* recvResponse applied to the buffer the read resolved with
recvResponseNoCheck(buffer) == Ok(buffer)

recvResponse(buffer) ==
    IF Len(buffer) = 0 THEN Err("No response received.") ELSE Ok(buffer)

CanCall == handle = "open" /\ pc = "done" /\ calls < MaxCalls

CallSendRequest(request) ==
    /\ UNCHANGED codecVars
    /\ CanCall
    /\ calls' = calls + 1
    /\ op' = "sendRequest"
    /\ pc' = "awaitWrite"
    /\ loc' = [ret |-> "return", request |-> request]
    /\ result' = Pending
    /\ HidWrite(<<>>, inflight, request)
    /\ rx' = MarkStale(rx)
    /\ UNCHANGED <<layers, info, handle>>

CallRecvResponse ==
    /\ UNCHANGED codecVars
    /\ CanCall
    /\ calls' = calls + 1
    /\ \E buffer \in ReadBuffers :
         /\ hidLog' = <<ReadEntry(buffer)>>
         /\ result' = recvResponse(buffer)
    /\ op' = "recvResponse"
    /\ pc' = "done"
    /\ loc' = NoLoc
    /\ overlap' = (overlap \/ inflight # <<>>)
    /\ rx' = MarkStale(RxAfterRead)
    /\ UNCHANGED <<layers, info, handle, inflight>>

\* the awaited hid.write resolves; the operation that awaited it only returns
WriteReturn ==
    /\ UNCHANGED codecVars
    /\ UNCHANGED calls
    /\ handle = "open" /\ pc = "awaitWrite" /\ loc.ret = "return"
    /\ inflight # <<>>
    /\ \E reply \in DeviceReplies(Head(inflight)) : rx' = Enqueue(rx, reply)
    /\ inflight' = Tail(inflight)
    /\ pc' = "done"
    /\ result' = Ok("written")
    /\ UNCHANGED <<layers, info, handle, op, loc, hidLog, overlap>>

\* -------------------------------------------------------------- KeypadImpl
setLayersClearsInfo(n) ==
    /\ UNCHANGED codecVars
    /\ CanCall
    /\ calls' = calls + 1
    /\ layers' = n
    /\ op' = "setLayers"
    /\ loc' = NoLoc
    /\ result' = Ok(n)
    /\ hidLog' = <<>>
    /\ rx' = MarkStale(rx)
    /\ info' = [keys |-> 0, knobs |-> 0]
    /\ UNCHANGED <<handle, pc, inflight, overlap>>

setLayers(n) ==
    /\ UNCHANGED codecVars
    /\ CanCall
    /\ calls' = calls + 1
    /\ layers' = n
    /\ op' = "setLayers"
    /\ loc' = NoLoc
    /\ result' = Ok(n)
    /\ hidLog' = <<>>
    /\ rx' = MarkStale(rx)
    /\ UNCHANGED <<info, handle, pc, inflight, overlap>>

setInfo(i) ==
    /\ UNCHANGED codecVars
    /\ CanCall
    /\ calls' = calls + 1
    /\ info' = [keys |-> i.keys, knobs |-> i.knobs]
    /\ op' = "setInfo"
    /\ loc' = NoLoc
    /\ result' = Ok(i)
    /\ hidLog' = <<>>
    /\ rx' = MarkStale(rx)
    /\ UNCHANGED <<layers, handle, pc, inflight, overlap>>

\* readInfo -> readKeypadInfo: the request is written, its completion awaited
readInfo ==
    /\ UNCHANGED codecVars
    /\ CanCall
    /\ calls' = calls + 1
    /\ op' = "readInfo"
    /\ pc' = "awaitWrite"
    /\ loc' = [ret |-> "readKeypadInfo"]
    /\ result' = Pending
    /\ HidWrite(<<>>, inflight, packetReadKeypadInfo)
    /\ rx' = MarkStale(rx)
    /\ UNCHANGED <<layers, info, handle>>

\* the awaited write resolves; the operation goes on to recvResponse
WriteThenRecv ==
    /\ UNCHANGED codecVars
    /\ UNCHANGED calls
    /\ handle = "open" /\ pc = "awaitWrite"
    /\ \/ loc.ret = "readKeypadInfo"
       \/ loc.ret = "readKeypadKeyMaps" /\ getKeyCount(loc.info) > 0
    /\ inflight # <<>>
    /\ \E reply \in DeviceReplies(Head(inflight)) : rx' = Enqueue(rx, reply)
    /\ inflight' = Tail(inflight)
    /\ pc' = loc.ret
    /\ UNCHANGED <<layers, info, handle, op, loc, result, hidLog, overlap>>

readKeypadInfoRecvKnobsFirst ==
    /\ UNCHANGED codecVars
    /\ UNCHANGED calls
    /\ handle = "open" /\ pc = "readKeypadInfo"
    /\ \E buffer \in ReadBuffers :
         LET res == recvResponse(buffer) IN
         /\ hidLog' = Append(hidLog, ReadEntry(buffer))
         /\ IF ~res.ok
            THEN result' = res /\ info' = info
            ELSE IF ~InRange(res.val, 3)
            THEN result' = Err("RangeError") /\ info' = info
            ELSE /\ info' = [keys |-> readUInt8(res.val, 3), knobs |-> readUInt8(res.val, 2)]
                 /\ result' = Ok(info')
    /\ pc' = "done"
    /\ rx' = RxAfterRead
    /\ overlap' = (overlap \/ inflight # <<>>)
    /\ UNCHANGED <<layers, handle, op, loc, inflight>>

\* readKeypadInfo after the write: recvResponse, decode, then setInfo
readKeypadInfoRecv ==
    /\ UNCHANGED codecVars
    /\ UNCHANGED calls
    /\ handle = "open" /\ pc = "readKeypadInfo"
    /\ \E buffer \in ReadBuffers :
         LET res == recvResponse(buffer) IN
         /\ hidLog' = Append(hidLog, ReadEntry(buffer))
         /\ IF ~res.ok
            THEN result' = res /\ info' = info
            ELSE IF ~InRange(res.val, 3)
            THEN result' = Err("RangeError") /\ info' = info
            ELSE /\ info' = [keys |-> readUInt8(res.val, 2), knobs |-> readUInt8(res.val, 3)]
                 /\ result' = Ok(info')
    /\ pc' = "done"
    /\ rx' = RxAfterRead
    /\ overlap' = (overlap \/ inflight # <<>>)
    /\ UNCHANGED <<layers, handle, op, loc, inflight>>

ReadKeyMapsRequestFromZero(l) ==
    packReadKeypadKeyMaps([keys |-> l.info.keys, knobs |-> l.info.knobs, layerId |-> l.i])

ReadKeyMapsRequest(l) ==
    packReadKeypadKeyMaps([keys |-> l.info.keys, knobs |-> l.info.knobs, layerId |-> l.i + 1])

\* readKeypadKeyMapTable: the list of layer l.i is complete; push it and either
\* start the exchange of the next layer or return the table
FinishLayer(l, log, pending) ==
    LET table == Append(l.table, l.list) IN
    IF l.i + 1 < l.layers
    THEN LET next == [l EXCEPT !.table = table, !.i = l.i + 1, !.j = 0, !.list = EmptyArray] IN
         /\ loc' = next
         /\ pc' = "awaitWrite"
         /\ result' = result
         /\ HidWrite(log, pending, ReadKeyMapsRequest(next))
    ELSE /\ loc' = [l EXCEPT !.table = table]
         /\ pc' = "done"
         /\ result' = Ok(table)
         /\ hidLog' = log
         /\ inflight' = pending
         /\ overlap' = overlap

readKeyMapTable ==
    /\ UNCHANGED codecVars
    /\ CanCall
    /\ calls' = calls + 1
    /\ op' = "readKeyMapTable"
    /\ rx' = MarkStale(rx)
    /\ LET l == [ret |-> "readKeypadKeyMaps", info |-> info, layers |-> layers,
                 i |-> 0, j |-> 0, list |-> EmptyArray, table |-> <<>>] IN
       IF 0 < layers
       THEN /\ loc' = l
            /\ pc' = "awaitWrite"
            /\ result' = Pending
            /\ HidWrite(<<>>, inflight, ReadKeyMapsRequest(l))
       ELSE /\ loc' = l
            /\ pc' = "done"
            /\ result' = Ok(<<>>)
            /\ hidLog' = <<>>
            /\ UNCHANGED <<inflight, overlap>>
    /\ UNCHANGED <<layers, info, handle>>

\* the awaited write of a layer with no slots resolves: no response is read
WriteThenNextLayer ==
    /\ UNCHANGED codecVars
    /\ UNCHANGED calls
    /\ handle = "open" /\ pc = "awaitWrite"
    /\ loc.ret = "readKeypadKeyMaps" /\ getKeyCount(loc.info) <= 0
    /\ inflight # <<>>
    /\ \E reply \in DeviceReplies(Head(inflight)) : rx' = Enqueue(rx, reply)
    /\ FinishLayer(loc, hidLog, Tail(inflight))
    /\ UNCHANGED <<layers, info, handle, op>>

\* the layer check of readKeypadKeyMaps
IsInvalidLayerNever(keyMapWithId, layerId) == FALSE

IsInvalidLayer(keyMapWithId, layerId) == keyMapWithId.layerId # layerId

\* the index of result a response is stored at, in turn i of the loop
StoreIndexByArrival(keyMapWithId, i) == i

StoreIndex(keyMapWithId, i) == keyMapWithId.keyId - 1

\* one turn of the receive loop of readKeypadKeyMaps
readKeypadKeyMapsRecv ==
    /\ UNCHANGED codecVars
    /\ UNCHANGED calls
    /\ handle = "open" /\ pc = "readKeypadKeyMaps"
    /\ rx' = RxAfterRead
    /\ \E buffer \in ReadBuffers :
         LET res == recvResponse(buffer)
             log == Append(hidLog, ReadEntry(buffer))
             unpacked == unpackKeyMapWithId(buffer)
             Throw(e) == /\ result' = e
                         /\ pc' = "done"
                         /\ hidLog' = log
                         /\ overlap' = (overlap \/ inflight # <<>>)
                         /\ UNCHANGED <<loc, inflight>>
         IN  IF ~res.ok THEN Throw(res)
             ELSE IF ~unpacked.ok THEN Throw(unpacked)
             ELSE IF IsInvalidLayer(unpacked.val, loc.i + 1)
                  THEN Throw(Err("Invalid layer response"))
             ELSE LET l == [loc EXCEPT !.list = ArraySet(loc.list, StoreIndex(unpacked.val, loc.j),
                                                            unpacked.val.keyMap),
                                        !.j = loc.j + 1] IN
                  IF l.j < getKeyCount(l.info)
                  THEN /\ loc' = l
                       /\ hidLog' = log
                       /\ overlap' = (overlap \/ inflight # <<>>)
                       /\ UNCHANGED <<pc, result, inflight>>
                  ELSE FinishLayer(l, log, inflight)
    /\ UNCHANGED <<layers, info, handle, op>>

\* writeKeyMap -> writeKeypadKeyMap -> writeKeypadKeyMapRaw -> sendRequest
writeKeyMap(keyMapWithId) ==
    /\ UNCHANGED codecVars
    /\ CanCall
    /\ calls' = calls + 1
    /\ op' = "writeKeyMap"
    /\ rx' = MarkStale(rx)
    /\ LET data == packKeyMap(keyMapWithId.keyMap) IN
       IF data.ok
       THEN /\ loc' = [ret |-> "return", arg |-> keyMapWithId]
            /\ pc' = "awaitWrite"
            /\ result' = Pending
            /\ HidWrite(<<>>, inflight,
                        packWriteKeypadKeyMapParam([keyId |-> keyMapWithId.keyId,
                                                    layerId |-> keyMapWithId.layerId,
                                                    data |-> data.val]))
       ELSE /\ loc' = [ret |-> "none", arg |-> keyMapWithId]
            /\ pc' = "done"
            /\ result' = data
            /\ hidLog' = <<>>
            /\ UNCHANGED <<inflight, overlap>>
    /\ UNCHANGED <<layers, info, handle>>

writeLed(param) ==
    /\ UNCHANGED codecVars
    /\ CanCall
    /\ calls' = calls + 1
    /\ op' = "writeLed"
    /\ pc' = "awaitWrite"
    /\ loc' = [ret |-> "packetEnd", arg |-> param]
    /\ result' = Pending
    /\ HidWrite(<<>>, inflight, packWriteKeypadLedParam(param))
    /\ rx' = MarkStale(rx)
    /\ UNCHANGED <<layers, info, handle>>

writeDelayTime(delayTimeMs) ==
    /\ UNCHANGED codecVars
    /\ CanCall
    /\ calls' = calls + 1
    /\ op' = "writeDelayTime"
    /\ pc' = "awaitWrite"
    /\ loc' = [ret |-> "packetEnd", arg |-> delayTimeMs]
    /\ result' = Pending
    /\ HidWrite(<<>>, inflight, packWriteKeypadDelayTimeParam([delayTimeMs |-> delayTimeMs]))
    /\ rx' = MarkStale(rx)
    /\ UNCHANGED <<layers, info, handle>>

\* writeKeypadLed / writeKeypadDelayTime: the parameter write resolves and the
\* terminator is written
WriteThenNoPacketEnd ==
    /\ UNCHANGED codecVars
    /\ UNCHANGED calls
    /\ handle = "open" /\ pc = "awaitWrite" /\ loc.ret = "packetEnd"
    /\ inflight # <<>>
    /\ \E reply \in DeviceReplies(Head(inflight)) : rx' = Enqueue(rx, reply)
    /\ inflight' = Tail(inflight)
    /\ pc' = "done"
    /\ result' = Ok("written")
    /\ UNCHANGED <<layers, info, handle, op, loc, hidLog, overlap>>

WriteThenPacketEnd ==
    /\ UNCHANGED codecVars
    /\ UNCHANGED calls
    /\ handle = "open" /\ pc = "awaitWrite" /\ loc.ret = "packetEnd"
    /\ inflight # <<>>
    /\ \E reply \in DeviceReplies(Head(inflight)) : rx' = Enqueue(rx, reply)
    /\ loc' = [loc EXCEPT !.ret = "return"]
    /\ HidWrite(hidLog, Tail(inflight), packetEnd)
    /\ UNCHANGED <<layers, info, handle, op, pc, result>>

\* ------------------------------------------------- defineKeyMapWithOptions
\* a NullableActionDef, tagged with what the type guards of
\* createKeyMapFromActionDef find: "null", "keyActions" (an array), "keyAction",
\* "consumer", "keyMap" or "mouse"
Null == [kind |-> "null"]

createKeyMapFromActionDef(actionDef) ==
    IF actionDef.kind = "keyActions" THEN createKeyMapKeys(actionDef.def)
    ELSE IF actionDef.kind = "keyAction" THEN createKeyMapKeys(<<actionDef.def>>)
    ELSE IF actionDef.kind = "consumer" THEN createKeyMapConsumer(actionDef.def)
    ELSE IF actionDef.kind = "keyMap" THEN actionDef.def
    ELSE createKeyMapMouse(actionDef.def)

RECURSIVE FlatMap(_)
FlatMap(lists) == IF lists = <<>> THEN <<>> ELSE Head(lists) \o FlatMap(Tail(lists))

RECURSIVE FilterNotNull(_)
FilterNotNull(items) ==
    IF items = <<>> THEN <<>>
    ELSE IF Head(items) = Null THEN FilterNotNull(Tail(items))
    ELSE <<Head(items)>> \o FilterNotNull(Tail(items))

createKeyMapsFilterFirst(actionDefTable) ==
    FlatMap([l \in 1..Len(actionDefTable) |->
        [k \in 1..Len(FilterNotNull(actionDefTable[l])) |->
            [layerId |-> l, keyId |-> k,
             keyMap |-> createKeyMapFromActionDef(FilterNotNull(actionDefTable[l])[k])]]])

createKeyMaps(actionDefTable) ==
    FlatMap([l \in 1..Len(actionDefTable) |->
        FilterNotNull([k \in 1..Len(actionDefTable[l]) |->
            IF actionDefTable[l][k] = Null THEN Null
            ELSE [layerId |-> l, keyId |-> k,
                  keyMap |-> createKeyMapFromActionDef(actionDefTable[l][k])]])])

validateKeyDefTableLayersOnly(keyDefTable, layerCount, keyCount) ==
    IF Len(keyDefTable) <= 0 \/ Len(keyDefTable) > layerCount
    THEN Err("ConfigurationError")
    ELSE Ok(TRUE)

validateKeyDefTable(keyDefTable, layerCount, keyCount) ==
    IF Len(keyDefTable) <= 0 \/ Len(keyDefTable) > layerCount
    THEN Err("ConfigurationError")
    ELSE IF \E i \in 1..Len(keyDefTable) : Len(keyDefTable[i]) > keyCount
    THEN Err("ConfigurationError")
    ELSE Ok(TRUE)

\* the requests of the keypad.writeKeyMap calls of the loop, none of them
\* awaited; a call whose packKeyMap throws writes nothing and rejects
RECURSIVE WriteKeyMapRequests(_)
WriteKeyMapRequests(keyMaps) ==
    IF keyMaps = <<>> THEN <<>>
    ELSE LET data == packKeyMap(Head(keyMaps).keyMap) IN
         (IF data.ok
          THEN <<packWriteKeypadKeyMapParam([keyId |-> Head(keyMaps).keyId,
                                             layerId |-> Head(keyMaps).layerId,
                                             data |-> data.val])>>
          ELSE <<>>) \o WriteKeyMapRequests(Tail(keyMaps))

defineKeyMapWithOptions(keyDefTable, apply) ==
    /\ UNCHANGED codecVars
    /\ CanCall
    /\ calls' = calls + 1
    /\ op' = "defineKeyMap"
    /\ pc' = "taskReturn"
    /\ rx' = MarkStale(rx)
    /\ LET valid == validateKeyDefTable(keyDefTable, layers, getKeyCount(info))
           keyMaps == createKeyMaps(keyDefTable)
           requests == IF valid.ok /\ apply THEN WriteKeyMapRequests(keyMaps) ELSE <<>>
       IN  /\ loc' = [ret |-> "none", table |-> keyDefTable, apply |-> apply]
           /\ result' = IF valid.ok THEN Ok("defined") ELSE valid
           /\ hidLog' = [i \in 1..Len(requests) |-> WriteEntry(requests[i])]
           /\ inflight' = inflight \o [i \in 1..Len(requests) |-> PadRequest(requests[i])]
           /\ overlap' = (overlap \/ Len(inflight') > 1)
    /\ UNCHANGED <<layers, info, handle>>

\* a write nobody awaits resolves while the handle is still open
WriteDetached ==
    /\ UNCHANGED codecVars
    /\ UNCHANGED calls
    /\ handle = "open" /\ pc = "taskReturn"
    /\ inflight # <<>>
    /\ \E reply \in DeviceReplies(Head(inflight)) : rx' = Enqueue(rx, reply)
    /\ inflight' = Tail(inflight)
    /\ UNCHANGED <<layers, info, handle, op, pc, loc, result, hidLog, overlap>>

\* withKeypad -> withHid: the task's promise settled, the handle is released
ReleaseHandle ==
    /\ UNCHANGED codecVars
    /\ UNCHANGED calls
    /\ handle = "open"
    /\ pc \in {"done", "taskReturn"}
    /\ handle' = "released"
    /\ UNCHANGED <<layers, info, op, pc, loc, result, hidLog, inflight, overlap, rx>>

\* a write still in flight settles after the handle was released
WriteAfterRelease ==
    /\ UNCHANGED codecVars
    /\ UNCHANGED calls
    /\ handle = "released"
    /\ inflight # <<>>
    /\ inflight' = Tail(inflight)
    /\ UNCHANGED <<layers, info, handle, op, pc, loc, result, hidLog, overlap, rx>>

\* ------------------------------------------------------------------ setKeyMap
\* dict: the characters of the generated character record
dictRecord == [a |-> createKeyAction(4, 0), A |-> Shift(createKeyAction(4, 0))]

fromCharacter(c) == IF c \in DOMAIN dictRecord THEN Defined(dictRecord[c]) ELSE Undefined

\* text.split('').map(fromCharacter): every lexeme of text is one character
createKeyActionsFromText(text) ==
    IF \E i \in 1..Len(text) : fromCharacter(text[i]) = Undefined THEN ConfigurationError
    ELSE Ok([i \in 1..Len(text) |-> fromCharacter(text[i]).defined])

createKeyMapFromText(text) ==
    IF text # <<>> /\ text[1] = "@"
    THEN LET keyActions == createKeyActionsFromText(Tail(text)) IN
         IF keyActions.ok THEN Ok(createKeyMapKeys(keyActions.val)) ELSE keyActions
    ELSE parseKeyMapFromKeyText(text)

\* newOptionRecord: the choices check of the option, then record[value]
parseOptionRecord(record, value) ==
    IF value \in DOMAIN record THEN Ok(record[value]) ELSE Err("InvalidArgumentError")

\* the property key a number converts to when it indexes an object
ToPropertyKey(n) == <<"0", "1", "2">>[n + 1]

\* the options object commander builds from --key-id, --knob-id and
\* --knob-action; knobAction is held as the property key its value converts to
parseSetKeyMapOptions(layerId, keyId, knobId, knobAction) ==
    LET parsed == IF knobAction = <<>> THEN Ok(0)
                  ELSE parseOptionRecord(KnobActions, knobAction[1])
    IN  IF ~parsed.ok THEN parsed
        ELSE Ok([layerId |-> layerId] @@
                OptionsOf(keyId, knobId,
                          IF knobAction = <<>> THEN <<>> ELSE <<ToPropertyKey(parsed.val)>>))

\* setKeyMap: the checks, then keypad.writeKeyMap, awaited
setKeyMap(keys, options) ==
    /\ UNCHANGED codecVars
    /\ CanCall
    /\ calls' = calls + 1
    /\ op' = "setKeyMap"
    /\ rx' = MarkStale(rx)
    /\ LET checked == resolveKeyId([keys |-> 256, knobs |-> 256], options)
           keyId == resolveKeyId(info, options)
           keyCount == getKeyCount(info)
           keyMap == createKeyMapFromText(keys)
           Throw(e) == /\ loc' = [ret |-> "none", keys |-> keys, options |-> options]
                       /\ pc' = "done"
                       /\ result' = e
                       /\ hidLog' = <<>>
                       /\ UNCHANGED <<inflight, overlap>>
       IN  IF ~checked.ok THEN Throw(checked)
           ELSE IF ~keyId.ok THEN Throw(keyId)
           ELSE IF keyId.val >= keyCount THEN Throw(ConfigurationError)
           ELSE IF ~keyMap.ok THEN Throw(keyMap)
           ELSE IF ~packKeyMap(keyMap.val).ok THEN Throw(packKeyMap(keyMap.val))
           ELSE /\ loc' = [ret |-> "return", keys |-> keys, options |-> options,
                           arg |-> [layerId |-> options.layerId, keyId |-> keyId.val,
                                    keyMap |-> keyMap.val]]
                /\ pc' = "awaitWrite"
                /\ result' = Pending
                /\ HidWrite(<<>>, inflight,
                            packWriteKeypadKeyMapParam([keyId |-> keyId.val,
                                                        layerId |-> options.layerId,
                                                        data |-> packKeyMap(keyMap.val).val]))
    /\ UNCHANGED <<layers, info, handle>>

\* the map command: commander parses the options, then runs setKeyMap
SetKeyMapCommand(keys, keyId, knobId, knobAction) ==
    LET options == parseSetKeyMapOptions(1, keyId, knobId, knobAction) IN
    options.ok /\ setKeyMap(keys, options.val)

\* ----------------------------------------------------------- session inputs
InfoSamples == [keys : 0..MaxKeys, knobs : 0..MaxKnobs]

RequestSamples ==
    { <<>>, <<1, 2, 3>>, <<3, 250, 1, 0, 1>>, [i \in 1..(REQUEST_SIZE - 1) |-> i],
      [i \in 1..REQUEST_SIZE |-> 256 - i] }

KeyMapSamples ==
    { createKeyMapKeys(<<>>),
      createKeyMapKeys(<<[modKey |-> 1, keyCode |-> 18]>>),
      createKeyMapKeys(KeyActionList(MaxKeyActions, 1, 4)),
      createKeyMapKeys(KeyActionList(MaxKeyActions + 1, 1, 4)),
      createKeyMapConsumer([id |-> 402]),
      createKeyMapConsumer([id |-> 65535]),
      createKeyMapMouse(WheelDown),
      createKeyMapMouse([modKey |-> 1, button |-> 2, x |-> 3, y |-> 4, wheel |-> 5]),
      [type |-> 0, buffer |-> <<3, 250, 1, 1, 0>>] }

KeyMapWithIdSamples == [layerId : {1, 2}, keyId : {1, 255}, keyMap : KeyMapSamples]

LedParams == [layerId : {1, MaxLayers}, ledModeId : 0..5, ledColorId : 1..7]

DelayTimes == {0, 10, 255, 256, 4660, 65535}

ActionDefSamples ==
    { Null,
      [kind |-> "keyAction", def |-> [keyCode |-> 4, modKey |-> 2]],
      [kind |-> "keyMap", def |-> [type |-> 0, buffer |-> <<3, 250, 1, 1, 0>>]] }

ActionDefLists ==
    UNION { [1..n -> ActionDefSamples] : n \in 0..MaxDefs }

\* the arguments and options given to the map command
SetKeyMapTexts == { <<"A">>, <<"@", "a", "A">> }
SetKeyMapKeyIds == { <<>> } \cup { <<k>> : k \in 0..(MaxKeys + 1) }
SetKeyMapKnobIds == { <<>> } \cup { <<k>> : k \in 1..MaxKnobs }
SetKeyMapKnobActions == { <<>>, <<"Left">>, <<"Right">>, <<"Bogus">> }

ActionDefTables ==
    { <<>> } \cup { <<a>> : a \in ActionDefLists }
             \cup { <<a, b>> : a \in ActionDefLists,
                               b \in { <<>>, <<Null, [kind |-> "mouse", def |-> LButton]>>,
                                       <<[kind |-> "consumer", def |-> [id |-> 402]]>> } }

\* ------------------------------------------------------------ specification
\* the session reading from the device, and the raw I/O functions
Next ==
    \/ \E n \in 0..MaxLayers : setLayers(n)
    \/ \E i \in InfoSamples : setInfo(i)
    \/ \E request \in RequestSamples : CallSendRequest(request)
    \/ CallRecvResponse
    \/ WriteReturn
    \/ readInfo
    \/ WriteThenRecv
    \/ readKeypadInfoRecv
    \/ readKeyMapTable
    \/ WriteThenNextLayer
    \/ readKeypadKeyMapsRecv
    \/ ReleaseHandle

Spec == Init /\ [][Next]_vars

\* the session writing to the device
NextWrite ==
    \/ \E n \in 0..MaxLayers : setLayers(n)
    \/ \E i \in InfoSamples : setInfo(i)
    \/ \E k \in KeyMapWithIdSamples : writeKeyMap(k)
    \/ \E param \in LedParams : writeLed(param)
    \/ \E ms \in DelayTimes : writeDelayTime(ms)
    \/ WriteReturn
    \/ WriteThenPacketEnd
    \/ \E t \in ActionDefTables, apply \in BOOLEAN : defineKeyMapWithOptions(t, apply)
    \/ \E keys \in SetKeyMapTexts, keyId \in SetKeyMapKeyIds, knobId \in SetKeyMapKnobIds,
          knobAction \in SetKeyMapKnobActions : SetKeyMapCommand(keys, keyId, knobId, knobAction)
    \/ WriteDetached
    \/ ReleaseHandle
    \/ WriteAfterRelease

SpecWrite == Init /\ [][NextWrite]_vars

\* ------------------------------------------------------------ codec checks
\* pack and unpack applied to inputs drawn from bounded sets
ByteSamples == {0, 1, 255}
IdSamples == {0, 1, 255}
ConsumerIds == {0, 1, 255, 256, 402, 13330, 65535}

CodecKeyMaps ==
    { createKeyMapKeys(KeyActionList(n, m0, k0)) :
        n \in 0..(MaxKeyActions + 1), m0 \in {0, 250}, k0 \in {0, 254} }
    \cup { createKeyMapKeys(<<[keyCode |-> 18, modKey |-> 1]>>) }
    \cup { createKeyMapConsumer([id |-> id]) : id \in ConsumerIds }
    \cup { createKeyMapMouse(m) :
        m \in [modKey : ByteSamples, button : ByteSamples, x : ByteSamples,
               y : ByteSamples, wheel : ByteSamples] }
    \cup { createKeyMapMouse(m) : m \in {WheelUp, WheelDown, LButton, MoveUp, Wheel(-1, 2)} }
    \cup { [type |-> 0, buffer |-> <<3, 250, 1, 1, 0>>],
           [type |-> 4, buffer |-> PadRequest(<<3, 250, 1, 1, 4>>)] }

SlotHeader(keyId, layerId) == <<3, 250, keyId, layerId>>

\* slot reports as the tests give them (payload only) and as hid.read gives
\* them (zero-padded to the report size)
EncodedSlots ==
    { SlotHeader(k, l) \o packKeyMap(m).val :
        k \in {1, 15}, l \in {1, 2},
        m \in { c \in CodecKeyMaps : packKeyMap(c).ok } }

\* reports holding what the codec itself never writes: 19 key actions, a count
\* byte of 200, reserved bytes in use, other payload markers, unknown types
OddSlots ==
    { SlotHeader(1, 1) \o <<1, 0, 0, 0, 0, 0, 19>> \o PackPairs(KeyActionList(19, 1, 4)),
      SlotHeader(1, 1) \o <<1, 0, 0, 0, 0, 0, 200>>,
      SlotHeader(1, 1) \o <<1, 0, 7, 0, 0, 0, 1, 0, 18>>,
      SlotHeader(2, 1) \o <<2, 0, 0, 0, 0, 0, 0, 146, 1>>,
      SlotHeader(3, 1) \o <<3, 0, 0, 0, 0, 0, 9, 0, 1, 0, 0, 0>>,
      SlotHeader(4, 1) \o <<0>>,
      SlotHeader(5, 2) \o <<9, 0, 0, 0, 0, 0, 1>> }

\* short reports of a type the codec does not know
UnknownSlots ==
    { SlotHeader(4, 1) \o <<0>>, SlotHeader(6, 3) \o <<255, 7>> }

\* buffers longer than a report, holding as many pairs as their count byte says
PairBytes(c) ==
    [j \in 1..(2 * c) |-> IF j % 2 = 1 THEN KeyActionAt(1, 4, (j + 1) \div 2).modKey
                                       ELSE KeyActionAt(1, 4, j \div 2).keyCode]

LongSlots ==
    { SlotHeader(1, 1) \o <<1, 0, 0, 0, 0, 0, c>> \o PairBytes(c) : c \in {20, 127, 128, 255} }

CodecBuffers ==
    EncodedSlots \cup { PadRequest(b) : b \in EncodedSlots \cup OddSlots }
    \cup UnknownSlots \cup LongSlots

CodecInputs ==
    [fn : {"packThenUnpack"}, keyId : IdSamples, layerId : IdSamples, keyMap : CodecKeyMaps]
    \cup [fn : {"unpackThenPack"}, buffer : CodecBuffers]

InitCodec ==
    /\ InitSession
    /\ cpc = "start"
    /\ cin \in CodecInputs
    /\ cmid = <<>>
    /\ cout = <<>>

\* packKeyMap on the input keymap
CodecPackInput ==
    /\ UNCHANGED sessionVars
    /\ cpc = "start" /\ cin.fn = "packThenUnpack"
    /\ cmid' = packKeyMap(cin.keyMap)
    /\ cpc' = IF cmid'.ok THEN "packed" ELSE "done"
    /\ cout' = IF cmid'.ok THEN cout ELSE cmid'
    /\ UNCHANGED cin

\* unpackKeyMapWithId on the slot header followed by the packed bytes
CodecUnpackPacked ==
    /\ UNCHANGED sessionVars
    /\ cpc = "packed"
    /\ cout' = unpackKeyMapWithId(SlotHeader(cin.keyId, cin.layerId) \o cmid.val)
    /\ cpc' = "done"
    /\ UNCHANGED <<cin, cmid>>

\* unpackKeyMapWithId on the input buffer
CodecUnpackInput ==
    /\ UNCHANGED sessionVars
    /\ cpc = "start" /\ cin.fn = "unpackThenPack"
    /\ cmid' = unpackKeyMapWithId(cin.buffer)
    /\ cpc' = IF cmid'.ok THEN "unpacked" ELSE "done"
    /\ cout' = IF cmid'.ok THEN cout ELSE cmid'
    /\ UNCHANGED cin

\* packKeyMap on the keymap that was unpacked
CodecPackUnpacked ==
    /\ UNCHANGED sessionVars
    /\ cpc = "unpacked"
    /\ cout' = packKeyMap(cmid.val.keyMap)
    /\ cpc' = "done"
    /\ UNCHANGED <<cin, cmid>>

NextCodec ==
    \/ CodecPackInput
    \/ CodecUnpackPacked
    \/ CodecUnpackInput
    \/ CodecPackUnpacked

SpecCodec == InitCodec /\ [][NextCodec]_vars

\* ----------------------------------------------------- checks of the helpers
\* the helpers of types.ts and utils.ts applied to inputs drawn from bounded sets
KnobInfoSamples == [keys : 0..(MaxKeys + 2), knobs : 0..(MaxKnobs + 2)]
Int8Inputs == (-300)..300
ModKeySamples == {0, 1, 2, 4, 8, 16, 32, 64, 128, 3, 85, 170, 255}
ModActions ==
    { [keyCode |-> 4, modKey |-> m] : m \in ModKeySamples }
    \cup { Wheel(-1, m) : m \in {0, 2, 129} }
ModifierNames == DOMAIN ModKey

Modifier(name, key) ==
    CASE name = "Shift" -> Shift(key)
      [] name = "Ctrl" -> Ctrl(key)
      [] name = "Alt" -> Alt(key)
      [] name = "Gui" -> Gui(key)
      [] name = "RShift" -> RShift(key)
      [] name = "RCtrl" -> RCtrl(key)
      [] name = "RAlt" -> RAlt(key)
      [] name = "RGui" -> RGui(key)

\* names given to createModKey: the eight modifiers, names that are none, and
\* a name every object inherits
ModKeyNameSamples == ModifierNames \cup {"Foo", "ctrl", "constructor"}
ModKeyNameLists ==
    { <<>>, ModKeyEntries, <<"Ctrl", "Shift", "Ctrl">>, <<"Ctrl", "Shift", "Foo">> }
    \cup { <<a>> : a \in ModKeyNameSamples }
    \cup { <<a, b>> : a \in ModKeyNameSamples, b \in ModKeyNameSamples }

PureInputs ==
    { [fn |-> "knobRoundTrip", info |-> i, knobId |-> k, knobAction |-> a] :
        i \in KnobInfoSamples, k \in 1..(MaxKnobs + 2), a \in 0..2 }
    \cup { [fn |-> "getKnobByKeyId", info |-> i, keyId |-> k] :
        i \in KnobInfoSamples, k \in 1..(MaxKeys + 2 + 3 * (MaxKnobs + 2)) }
    \cup [fn : {"toInt8"}, n : Int8Inputs]
    \cup [fn : {"applyModKey"}, action : ModActions, bits : 0..255]
    \cup [fn : {"modifier"}, name : ModifierNames, action : ModActions]
    \cup [fn : {"createModKey"}, names : ModKeyNameLists]
    \cup [fn : {"modKeyRoundTrip"}, m : 0..255]

InitPure ==
    /\ InitSession
    /\ cpc = "start"
    /\ cin \in { i \in PureInputs :
                  /\ i.fn = "knobRoundTrip" => i.knobId <= i.info.knobs
                  /\ i.fn = "getKnobByKeyId" => i.keyId <= getKeyCount(i.info) }
    /\ cmid = <<>>
    /\ cout = <<>>

CallGetKeyIdForKnob ==
    /\ UNCHANGED sessionVars
    /\ cpc = "start" /\ cin.fn = "knobRoundTrip"
    /\ cmid' = getKeyIdForKnob(cin.info, cin.knobId, cin.knobAction)
    /\ cpc' = "mid"
    /\ UNCHANGED <<cin, cout>>

\* getKnobByKeyId on the key id getKeyIdForKnob returned
CallGetKnobByKeyIdOfResult ==
    /\ UNCHANGED sessionVars
    /\ cpc = "mid" /\ cin.fn = "knobRoundTrip"
    /\ cout' = getKnobByKeyId(cin.info, cmid)
    /\ cpc' = "done"
    /\ UNCHANGED <<cin, cmid>>

CallGetKnobByKeyId ==
    /\ UNCHANGED sessionVars
    /\ cpc = "start" /\ cin.fn = "getKnobByKeyId"
    /\ cout' = getKnobByKeyId(cin.info, cin.keyId)
    /\ cpc' = "done"
    /\ UNCHANGED <<cin, cmid>>

CallToInt8 ==
    /\ UNCHANGED sessionVars
    /\ cpc = "start" /\ cin.fn = "toInt8"
    /\ cmid' = toInt8(cin.n)
    /\ cpc' = "mid"
    /\ UNCHANGED <<cin, cout>>

\* fromInt8 on the byte toInt8 returned
CallFromInt8 ==
    /\ UNCHANGED sessionVars
    /\ cpc = "mid" /\ cin.fn = "toInt8"
    /\ cout' = fromInt8(cmid)
    /\ cpc' = "done"
    /\ UNCHANGED <<cin, cmid>>

CallApplyModKey ==
    /\ UNCHANGED sessionVars
    /\ cpc = "start" /\ cin.fn = "applyModKey"
    /\ cmid' = applyModKey(cin.action, cin.bits)
    /\ cpc' = "mid"
    /\ UNCHANGED <<cin, cout>>

\* applyModKey with the same bits on the action applyModKey returned
CallApplyModKeyAgain ==
    /\ UNCHANGED sessionVars
    /\ cpc = "mid" /\ cin.fn = "applyModKey"
    /\ cout' = applyModKey(cmid, cin.bits)
    /\ cpc' = "done"
    /\ UNCHANGED <<cin, cmid>>

CallModifier ==
    /\ UNCHANGED sessionVars
    /\ cpc = "start" /\ cin.fn = "modifier"
    /\ cout' = Modifier(cin.name, cin.action)
    /\ cpc' = "done"
    /\ UNCHANGED <<cin, cmid>>

CallCreateModKey ==
    /\ UNCHANGED sessionVars
    /\ cpc = "start" /\ cin.fn = "createModKey"
    /\ cout' = createModKey(cin.names)
    /\ cpc' = "done"
    /\ UNCHANGED <<cin, cmid>>

CallGetModKeyNames ==
    /\ UNCHANGED sessionVars
    /\ cpc = "start" /\ cin.fn = "modKeyRoundTrip"
    /\ cmid' = getModKeyNames(cin.m)
    /\ cpc' = "mid"
    /\ UNCHANGED <<cin, cout>>

\* createModKey on the names getModKeyNames returned
CallCreateModKeyOfNames ==
    /\ UNCHANGED sessionVars
    /\ cpc = "mid" /\ cin.fn = "modKeyRoundTrip"
    /\ cout' = createModKey(cmid)
    /\ cpc' = "done"
    /\ UNCHANGED <<cin, cmid>>

NextPure ==
    \/ CallGetKeyIdForKnob
    \/ CallGetKnobByKeyIdOfResult
    \/ CallGetKnobByKeyId
    \/ CallToInt8
    \/ CallFromInt8
    \/ CallApplyModKey
    \/ CallApplyModKeyAgain
    \/ CallModifier
    \/ CallCreateModKey
    \/ CallGetModKeyNames
    \/ CallCreateModKeyOfNames

SpecPure == InitPure /\ [][NextPure]_vars

\* ------------------------------------------------- checks of the cli glue
\* the functions of cli-impl.ts applied to inputs drawn from bounded sets
CliInfoSamples == { [keys |-> 3, knobs |-> 1], [keys |-> 0, knobs |-> 2], [keys |-> 0, knobs |-> 0] }
KeyIdOptions == { <<>> } \cup { <<k>> : k \in (-1)..7 }
KnobIdOptions == { <<>> } \cup { <<k>> : k \in 0..3 }
KnobActionOptions ==
    { <<>> } \cup { <<a>> : a \in {"Left", "Click", "Right", "Unknown", "left", "constructor"} }

TextNames == {"A", "B", "LButton", "Mute", "Shift", "Ctrl", "Nope", "constructor"}
TextLexemes == TextNames \cup {" ", "+"}

\* the texts of exactly n lexemes
RECURSIVE TextsOfLen(_)
TextsOfLen(n) ==
    IF n = 0 THEN { <<>> }
    ELSE { Append(t, l) : t \in TextsOfLen(n - 1), l \in TextLexemes } \
         { Append(t, l) : t \in { u \in TextsOfLen(n - 1) : u # <<>> /\ u[Len(u)] \in TextNames },
                          l \in TextNames }

Texts == UNION { TextsOfLen(n) : n \in 0..MaxText }

CliInputs ==
    { [fn |-> "resolveKeyId", info |-> i, options |-> OptionsOf(k, n, a)] :
        i \in CliInfoSamples, k \in KeyIdOptions, n \in KnobIdOptions, a \in KnobActionOptions }
    \cup [fn : {"parseKeyMapFromKeyText"}, text : Texts]
    \cup [fn : {"createKeyMaps"}, table : ActionDefTables]

InitCli ==
    /\ InitSession
    /\ cpc = "start"
    /\ cin \in CliInputs
    /\ cmid = <<>>
    /\ cout = <<>>

CallResolveKeyId ==
    /\ UNCHANGED sessionVars
    /\ cpc = "start" /\ cin.fn = "resolveKeyId"
    /\ cout' = resolveKeyId(cin.info, cin.options)
    /\ cpc' = "done"
    /\ UNCHANGED <<cin, cmid>>

CallParseKeyMapFromKeyText ==
    /\ UNCHANGED sessionVars
    /\ cpc = "start" /\ cin.fn = "parseKeyMapFromKeyText"
    /\ cout' = parseKeyMapFromKeyText(cin.text)
    /\ cpc' = "done"
    /\ UNCHANGED <<cin, cmid>>

CallCreateKeyMaps ==
    /\ UNCHANGED sessionVars
    /\ cpc = "start" /\ cin.fn = "createKeyMaps"
    /\ cout' = createKeyMaps(cin.table)
    /\ cpc' = "done"
    /\ UNCHANGED <<cin, cmid>>

NextCli ==
    \/ CallResolveKeyId
    \/ CallParseKeyMapFromKeyText
    \/ CallCreateKeyMaps

SpecCli == InitCli /\ [][NextCli]_vars

\* ===================================================================== claims
IsKnownKeyMap(m) ==
    \/ m.type = KeyMapTypes.keys /\ Len(m.keys) <= MaxKeyActions
    \/ m.type = KeyMapTypes.consumer
    \/ m.type = KeyMapTypes.mouse

\* C1: for every KeyMap m of a known type (keys with 0..18 actions, consumer,
\* mouse) and every keyId and layerId, unpackKeyMapWithId applied to
\* [0x03, 0xfa, keyId, layerId] followed by packKeyMap(m) returns exactly
\* {layerId, keyId, keyMap: m}.
C1_UnpackOfPack ==
    (cpc = "done" /\ cin.fn = "packThenUnpack" /\ IsKnownKeyMap(cin.keyMap))
        => cout = Ok([layerId |-> cin.layerId, keyId |-> cin.keyId, keyMap |-> cin.keyMap])

C1_Witness ==
    /\ cpc = "done" /\ cin.fn = "packThenUnpack"
    /\ cin.keyMap.type = KeyMapTypes.keys /\ Len(cin.keyMap.keys) = MaxKeyActions
    /\ cin.keyId = 255 /\ cin.layerId = 1
    /\ cout.ok /\ Len(cout.val.keyMap.keys) = MaxKeyActions

HasKnownType(buffer) ==
    InRange(buffer, 4) /\ readUInt8(buffer, 4) \in {KeyMapTypes.keys, KeyMapTypes.consumer, KeyMapTypes.mouse}

\* where the payload of a canonical slot encoding ends; 0 if the buffer is none
PayloadEnd(buffer) ==
    IF ~InRange(buffer, 10) THEN 0
    ELSE IF readUInt8(buffer, 4) = KeyMapTypes.keys /\ readUInt8(buffer, 10) <= MaxKeyActions
    THEN 11 + 2 * readUInt8(buffer, 10)
    ELSE IF readUInt8(buffer, 4) = KeyMapTypes.consumer /\ readUInt8(buffer, 10) = 1 THEN 13
    ELSE IF readUInt8(buffer, 4) = KeyMapTypes.mouse /\ readUInt8(buffer, 10) = 4 THEN 16
    ELSE 0

\* header, type, five zero bytes, the payload as packKeyMap lays it out, and
\* nothing but zero bytes after it
IsCanonicalSlot(buffer) ==
    /\ PayloadEnd(buffer) > 0
    /\ Len(buffer) >= PayloadEnd(buffer)
    /\ \A o \in 5..9 : readUInt8(buffer, o) = 0
    /\ \A o \in PayloadEnd(buffer)..(Len(buffer) - 1) : readUInt8(buffer, o) = 0

\* C2 (as claimed): for every report buffer whose type byte is 0x01, 0x02 or
\* 0x03, packKeyMap(unpackKeyMapWithId(buffer).keyMap) equals the buffer's
\* bytes from offset 4 to its end.
C2_PackOfUnpackIsTail ==
    (cpc = "done" /\ cin.fn = "unpackThenPack" /\ HasKnownType(cin.buffer))
        => cout = Ok(SubSeq(cin.buffer, 5, Len(cin.buffer)))

\* C2 (amended): for every buffer that is a slot header followed by a canonical
\* payload and then only zero bytes, packKeyMap(unpackKeyMapWithId(buffer).keyMap)
\* equals the buffer's bytes from offset 4 to the end of the payload, i.e. the
\* header-stripped buffer without its zero padding.
C2_PackOfUnpackCanonical ==
    (cpc = "done" /\ cin.fn = "unpackThenPack" /\ IsCanonicalSlot(cin.buffer))
        => /\ cout.ok
           /\ cout.val = SubSeq(cin.buffer, 5, PayloadEnd(cin.buffer))

C2_Witness ==
    /\ cpc = "done" /\ cin.fn = "unpackThenPack"
    /\ IsCanonicalSlot(cin.buffer)
    /\ Len(cin.buffer) = REQUEST_SIZE
    /\ readUInt8(cin.buffer, 4) = KeyMapTypes.mouse
    /\ readUInt8(cin.buffer, 15) = 255
    /\ cout.ok

\* ---------------------------------------------------------- session claims
IsWrite(entry, request) ==
    entry = [call |-> "write", arg |-> request \o Zeros(65 - Len(request))]

IsRead(entry) == entry.call = "read" /\ entry.arg = 250

\* the log of a readKeyMapTable call is cut into exchanges of 1 + count calls
ExchangeOf(p, count) == ((p - 1) \div (count + 1)) + 1
PlaceOf(p, count) == (p - 1) % (count + 1)

GoodResponse(entry, layerId) ==
    /\ entry.ret # <<>>
    /\ Len(entry.ret) > 3
    /\ entry.ret[4] = layerId

TableLogShape(log, keys, knobs) ==
    \A p \in 1..Len(log) :
        IF PlaceOf(p, keys + 3 * knobs) = 0
        THEN IsWrite(log[p], <<3, 250, keys, knobs, ExchangeOf(p, keys + 3 * knobs)>>)
        ELSE IsRead(log[p])

AllResponsesGood(log, count) ==
    \A p \in 1..Len(log) :
        PlaceOf(p, count) # 0 => GoodResponse(log[p], ExchangeOf(p, count))

\* C3: with info (keys, knobs) and layers = L, when every response carries the
\* requested layerId, readKeyMapTable issues exactly L writes, the i-th being
\* the zero-padded request [0x03, 0xfa, keys, knobs, i] in ascending order,
\* consumes exactly keys + 3*knobs responses after each write before the next
\* write, and returns a table of L lists.
C3_ReadKeyMapTableExchanges ==
    op = "readKeyMapTable" =>
        /\ TableLogShape(hidLog, loc.info.keys, loc.info.knobs)
        /\ Len(hidLog) <= loc.layers * (1 + getKeyCount(loc.info))
        /\ (pc = "done" /\ AllResponsesGood(hidLog, getKeyCount(loc.info))) =>
              /\ result.ok
              /\ Len(result.val) = loc.layers
              /\ Len(hidLog) = loc.layers * (1 + getKeyCount(loc.info))

C3_Witness ==
    /\ op = "readKeyMapTable" /\ pc = "done" /\ result.ok
    /\ loc.layers = 2 /\ loc.info = [keys |-> 0, knobs |-> 1]
    /\ Len(result.val) = 2
    /\ Len(hidLog) = 8

\* C4: if a response of readKeyMapTable is empty or carries another layerId,
\* the call fails at that response: it returns no table, makes no further read
\* or write (later layers are never requested) and retries nothing.
C4_ReadKeyMapTableAborts ==
    op = "readKeyMapTable" =>
        LET count == getKeyCount(loc.info) IN
        /\ \A p \in 1..Len(hidLog) :
              (hidLog[p].call = "read" /\ ~GoodResponse(hidLog[p], ExchangeOf(p, count))) =>
                  /\ p = Len(hidLog)
                  /\ pc = "done"
                  /\ ~result.ok
                  /\ DOMAIN result = {"ok", "err"}
                  /\ inflight = <<>>
        /\ \A p, q \in 1..Len(hidLog) :
              (p < q /\ hidLog[p].call = "write" /\ hidLog[q].call = "write") =>
                  hidLog[p].arg[5] < hidLog[q].arg[5]

C4_Witness ==
    /\ op = "readKeyMapTable" /\ pc = "done" /\ ~result.ok
    /\ result.err = "Invalid layer response"
    /\ loc.layers >= 2 /\ loc.i = 0
    /\ Len(hidLog) >= 2
    /\ hidLog[Len(hidLog)].call = "read"

\* C9: for every payload of at most 65 bytes, sendRequest performs exactly one
\* hid.write whose argument has exactly 65 bytes, the payload unchanged at the
\* front followed by zero bytes, and performs no read.
C9_SendRequestPads ==
    (op = "sendRequest" /\ Len(loc.request) <= 65) =>
        /\ Len(hidLog) = 1
        /\ hidLog[1].call = "write"
        /\ Len(hidLog[1].arg) = 65
        /\ SubSeq(hidLog[1].arg, 1, Len(loc.request)) = loc.request
        /\ \A i \in (Len(loc.request) + 1)..65 : hidLog[1].arg[i] = 0

C9_Witness ==
    /\ op = "sendRequest" /\ pc = "done" /\ result.ok
    /\ loc.request = <<1, 2, 3>>
    /\ Len(hidLog[1].arg) = 65

\* C10: recvResponse performs exactly one read with timeout 250; if the buffer
\* is empty it fails and does not read again, otherwise it returns that buffer
\* unchanged.
C10_RecvResponse ==
    op = "recvResponse" =>
        /\ Len(hidLog) = 1
        /\ hidLog[1].call = "read"
        /\ hidLog[1].arg = 250
        /\ pc = "done"
        /\ (hidLog[1].ret = <<>> => ~result.ok)
        /\ (hidLog[1].ret # <<>> => result = Ok(hidLog[1].ret))

C10_Witness ==
    /\ op = "recvResponse" /\ pc = "done"
    /\ hidLog[1].ret = <<>>
    /\ result = Err("No response received.")

\* C5 (as claimed): on one handle no two requests are ever in flight at once,
\* in every operation including defineKeyMapWithOptions with --apply, and the
\* task that owns the handle finishes (the handle is released) only after every
\* write it started has completed.
C5_OneRequestInFlight ==
    /\ ~overlap
    /\ Len(inflight) <= 1
    /\ (handle = "released" => inflight = <<>>)

\* C6: for every KeyMapWithId whose keyMap is packable, writeKeyMap performs
\* exactly one hid.write and no read; the written array is exactly 65 bytes,
\* [0x03, 0xfd, keyId, layerId] followed by packKeyMap(keyMap) and then zeros,
\* and the unpadded request is at most 47 bytes.
C6_WriteKeyMapFrame ==
    (op = "writeKeyMap" /\ IsKnownKeyMap(loc.arg.keyMap)) =>
        LET request == <<3, 253, loc.arg.keyId, loc.arg.layerId>> \o packKeyMap(loc.arg.keyMap).val IN
        /\ Len(request) <= 47
        /\ Len(hidLog) = 1
        /\ hidLog[1].call = "write"
        /\ Len(hidLog[1].arg) = 65
        /\ hidLog[1].arg = request \o Zeros(65 - Len(request))
        /\ (pc = "done" => result.ok)

C6_Witness ==
    /\ op = "writeKeyMap" /\ pc = "done" /\ result.ok
    /\ loc.arg.keyMap.type = KeyMapTypes.keys
    /\ Len(loc.arg.keyMap.keys) = MaxKeyActions
    /\ loc.arg.keyId = 255
    /\ hidLog[1].arg[47] # 0

\* C7: writeLed({layerId, ledModeId, ledColorId}) performs exactly two writes
\* and no read: first the zero-padded parameter packet
\* [0x03,0xfe,0xb0,0x01,0x08,0,0,0,0,0,layerId,0x00,ledColorId*16+ledModeId],
\* then the zero-padded terminator [0x03,0xfd,0xfe,0xff]; for layerId 1, mode
\* 0, colour 1 the parameter byte at offset 0x0C is 0x10.
C7_WriteLedPackets ==
    op = "writeLed" =>
        /\ Len(hidLog) \in 1..2
        /\ IsWrite(hidLog[1], <<3, 254, 176, 1, 8, 0, 0, 0, 0, 0, loc.arg.layerId, 0,
                                loc.arg.ledColorId * 16 + loc.arg.ledModeId>>)
        /\ (Len(hidLog) = 2 => IsWrite(hidLog[2], <<3, 253, 254, 255>>))
        /\ (pc = "done" => Len(hidLog) = 2 /\ result.ok)
        /\ (loc.arg = [layerId |-> 1, ledModeId |-> 0, ledColorId |-> 1] => hidLog[1].arg[13] = 16)

C7_Witness ==
    /\ op = "writeLed" /\ pc = "done"
    /\ loc.arg = [layerId |-> 1, ledModeId |-> 0, ledColorId |-> 1]
    /\ Len(hidLog) = 2
    /\ hidLog[1].arg[13] = 16

\* C8: writeDelayTime(ms), ms in 0..65535, performs exactly two writes and no
\* read: first the zero-padded parameter packet
\* [0x03,0xfe,0xb0,0x01,0x05, ms mod 256, ms div 256, 0,0,0, 0x01,0x00,0x24],
\* then the zero-padded terminator [0x03,0xfd,0xfe,0xff]; the terminator is
\* never written before the parameter packet and never omitted after a
\* completed parameter write.
C8_WriteDelayTimePackets ==
    op = "writeDelayTime" =>
        /\ Len(hidLog) \in 1..2
        /\ IsWrite(hidLog[1], <<3, 254, 176, 1, 5, loc.arg % 256, loc.arg \div 256,
                                0, 0, 0, 1, 0, 36>>)
        /\ (Len(hidLog) = 2 => IsWrite(hidLog[2], <<3, 253, 254, 255>>))
        /\ (Len(hidLog) = 1 => pc = "awaitWrite" /\ inflight = <<hidLog[1].arg>>)
        /\ (pc = "done" => Len(hidLog) = 2 /\ result.ok /\ inflight = <<>>)

C8_Witness ==
    /\ op = "writeDelayTime" /\ pc = "done"
    /\ loc.arg = 4660
    /\ Len(hidLog) = 2
    /\ hidLog[1].arg[6] = 52 /\ hidLog[1].arg[7] = 18

\* ------------------------------------------------------------ codec claims
\* C11: packing a keys-type KeyMap fails with an error whenever it holds more
\* than 18 KeyActions (packKeyMap returns no bytes, nothing is truncated); for
\* 0..18 actions the payload is [count, modKey1, keyCode1, ..., modKeyN,
\* keyCodeN] with modKey before keyCode, so {type: keys, keys: [{keyCode: 0x12,
\* modKey: 0x01}]} packs to [0x01,0,0,0,0,0, 0x01, 0x01,0x12].
C11_PackKeysCount ==
    (cin # <<>> /\ cin.fn = "packThenUnpack" /\ cpc # "start"
        /\ cin.keyMap.type = 1) =>
        LET keys == cin.keyMap.keys IN
        /\ Len(keys) > 18 => (~cmid.ok /\ DOMAIN cmid = {"ok", "err"} /\ cpc = "done" /\ cout = cmid)
        /\ Len(keys) <= 18 =>
              /\ cmid.ok
              /\ Len(cmid.val) = 7 + 2 * Len(keys)
              /\ SubSeq(cmid.val, 1, 7) = <<1, 0, 0, 0, 0, 0, Len(keys)>>
              /\ \A i \in 1..Len(keys) :
                    /\ cmid.val[6 + 2 * i] = keys[i].modKey
                    /\ cmid.val[7 + 2 * i] = keys[i].keyCode
        /\ keys = <<[keyCode |-> 18, modKey |-> 1]>> => cmid = Ok(<<1, 0, 0, 0, 0, 0, 1, 1, 18>>)

C11_Witness ==
    /\ cin # <<>> /\ cin.fn = "packThenUnpack" /\ cpc = "done"
    /\ cin.keyMap.type = 1 /\ Len(cin.keyMap.keys) = 19
    /\ ~cmid.ok /\ ~cout.ok

C13_UnpackKeyActionsCount ==
    (cin # <<>> /\ cin.fn = "unpackThenPack" /\ cpc # "start"
        /\ Len(cin.buffer) >= 11 /\ cin.buffer[5] = 1
        /\ Len(cin.buffer) >= 11 + 2 * cin.buffer[11]) =>
        /\ cmid.ok
        /\ Len(cmid.val.keyMap.keys) = cin.buffer[11]
        /\ \A i \in 0..(cin.buffer[11] - 1) :
              /\ cmid.val.keyMap.keys[i + 1].modKey = cin.buffer[12 + 2 * i]
              /\ cmid.val.keyMap.keys[i + 1].keyCode = cin.buffer[13 + 2 * i]

\* C14: packMouseAction(a) is exactly the 6 bytes [0x04, a.modKey, a.button,
\* a.x, a.y, a.wheel] and packKeyMap prefixes it with [0x03,0,0,0,0,0];
\* unpackMouseAction reads modKey, button, x, y, wheel from offsets 0x0B..0x0F;
\* negative deltas travel as two's-complement bytes, so mouse.WheelUp has wheel
\* byte 0x01 and mouse.WheelDown has wheel byte 0xFF.
C14_MouseLayout ==
    /\ (cin # <<>> /\ cin.fn = "packThenUnpack" /\ cpc # "start" /\ cin.keyMap.type = 3) =>
          LET a == cin.keyMap.mouse IN
          /\ cmid = Ok(<<3, 0, 0, 0, 0, 0, 4, a.modKey, a.button, a.x, a.y, a.wheel>>)
          /\ a = WheelUp => cmid.val[12] = 1
          /\ a = WheelDown => cmid.val[12] = 255
    /\ (cin # <<>> /\ cin.fn = "unpackThenPack" /\ cpc # "start"
          /\ Len(cin.buffer) >= 16 /\ cin.buffer[5] = 3) =>
          /\ cmid.ok
          /\ cmid.val.keyMap.mouse =
                [modKey |-> cin.buffer[12], button |-> cin.buffer[13], x |-> cin.buffer[14],
                 y |-> cin.buffer[15], wheel |-> cin.buffer[16]]
    /\ WheelUp.wheel = 1 /\ WheelDown.wheel = 255

C14_Witness ==
    /\ cin # <<>> /\ cin.fn = "packThenUnpack" /\ cpc = "done"
    /\ cin.keyMap.type = 3 /\ cin.keyMap.mouse = WheelDown
    /\ cmid.val[12] = 255
    /\ cout.ok /\ cout.val.keyMap.mouse.wheel = 255

\* C15: for every consumer id in 0..65535, packConsumerAction emits
\* [0x01, id mod 256, id div 256] (low byte first) and unpackConsumerAction
\* returns id = byte[0x0B] + 256 * byte[0x0C]; bytes 0x92, 0x01 at offsets
\* 0x0B, 0x0C decode to id 0x0192.
C15_ConsumerLittleEndian ==
    /\ (cin # <<>> /\ cin.fn = "packThenUnpack" /\ cpc # "start" /\ cin.keyMap.type = 2) =>
          LET id == cin.keyMap.consumer.id IN
          /\ cmid.ok
          /\ SubSeq(cmid.val, 7, Len(cmid.val)) = <<1, id % 256, id \div 256>>
    /\ (cin # <<>> /\ cin.fn = "unpackThenPack" /\ cpc # "start"
          /\ Len(cin.buffer) >= 13 /\ cin.buffer[5] = 2) =>
          /\ cmid.ok
          /\ cmid.val.keyMap.consumer.id = cin.buffer[12] + 256 * cin.buffer[13]
          /\ (cin.buffer[12] = 146 /\ cin.buffer[13] = 1) => cmid.val.keyMap.consumer.id = 402

C15_Witness ==
    /\ cin # <<>> /\ cin.fn = "unpackThenPack" /\ cpc = "done"
    /\ Len(cin.buffer) >= 13 /\ cin.buffer[5] = 2
    /\ cin.buffer[12] = 146 /\ cin.buffer[13] = 1
    /\ cmid.ok /\ cmid.val.keyMap.consumer.id = 402
    /\ cout = Ok(<<2, 0, 0, 0, 0, 0, 1, 146, 1>>)

\* ------------------------------------------------------------ helper claims
KnobActionNames == <<"Left", "Click", "Right">>

\* C16: for every info with keys >= 0 and knobs >= 0, every knobId in 1..knobs
\* and every action in {Left=0, Click=1, Right=2}: getKeyIdForKnob(info, knobId,
\* action) = 1 + keys + 3*(knobId-1) + action, getKnobByKeyId(info, that id) =
\* (knobId, name of action), distinct (knobId, action) pairs get distinct key
\* ids that together cover exactly keys+1 .. keys+3*knobs, and getKnobByKeyId
\* returns undefined for every keyId in 1..keys.
C16_KnobIdBijection ==
    /\ (cin # <<>> /\ cin.fn = "knobRoundTrip" /\ cpc # "start") =>
          LET keys == cin.info.keys
              knobs == cin.info.knobs
              ids == { getKeyIdForKnob(cin.info, k, a) : k \in 1..knobs, a \in 0..2 }
          IN  /\ cmid = 1 + keys + 3 * (cin.knobId - 1) + cin.knobAction
              /\ cpc = "done" =>
                    cout = [knobId |-> cin.knobId, knobAction |-> KnobActionNames[cin.knobAction + 1]]
              /\ ids = (keys + 1)..(keys + 3 * knobs)
              /\ Cardinality(ids) = 3 * knobs
    /\ (cin # <<>> /\ cin.fn = "getKnobByKeyId" /\ cpc = "done") =>
          /\ cin.keyId \in 1..cin.info.keys => cout = [undefined |-> TRUE]
          /\ cin.keyId > cin.info.keys =>
                /\ cout # [undefined |-> TRUE]
                /\ cout.knobId \in 1..cin.info.knobs
                /\ cin.keyId = 1 + cin.info.keys + 3 * (cout.knobId - 1)
                                 + (CHOOSE a \in 0..2 : KnobActionNames[a + 1] = cout.knobAction)

C16_Witness ==
    /\ cin # <<>> /\ cin.fn = "knobRoundTrip" /\ cpc = "done"
    /\ cin.info = [keys |-> 2, knobs |-> 3] /\ cin.knobId = 3 /\ cin.knobAction = 2
    /\ cmid = 11
    /\ cout = [knobId |-> 3, knobAction |-> "Right"]

\* C17: for every integer n in [-128,127], toInt8(n) is a byte in 0..255 and
\* fromInt8(toInt8(n)) = n; for every integer n > 127, toInt8(n) = 0x7F, and
\* for every integer n < -128, toInt8(n) = 0x80 (clamping, never wraparound).
C17_Int8Clamp ==
    (cin # <<>> /\ cin.fn = "toInt8" /\ cpc # "start") =>
        /\ (cin.n >= -128 /\ cin.n <= 127) =>
              /\ cmid \in 0..255
              /\ cpc = "done" => cout = cin.n
        /\ cin.n > 127 => cmid = 127
        /\ cin.n < -128 => cmid = 128

C17_Witness ==
    /\ cin # <<>> /\ cin.fn = "toInt8" /\ cpc = "done"
    /\ cin.n = -128 /\ cmid = 128 /\ cout = -128

\* bit i of the non-negative integer n
Bit(n, i) == (n \div (2 ^ i)) % 2

ModKeyBits ==
    [Ctrl |-> 1, Shift |-> 2, Alt |-> 4, Gui |-> 8, RCtrl |-> 16, RShift |-> 32, RAlt |-> 64,
     RGui |-> 128]

IsOrOf(r, a, b) ==
    /\ r \in 0..255
    /\ \A i \in 0..7 : Bit(r, i) = (IF Bit(a, i) = 1 \/ Bit(b, i) = 1 THEN 1 ELSE 0)

SameButModKey(r, a) ==
    /\ DOMAIN r = DOMAIN a
    /\ \A f \in DOMAIN a \ {"modKey"} : r[f] = a[f]

\* C20: for every action a carrying a modKey and every bit mask b in 0..255,
\* applyModKey(a, b) returns a new value whose modKey is (a.modKey OR b) and
\* whose other fields equal a's, leaves a itself unchanged, and satisfies
\* applyModKey(applyModKey(a, b), b) = applyModKey(a, b); Ctrl, Shift, Alt, Gui,
\* RCtrl, RShift, RAlt, RGui are applyModKey with the bits 0x01 .. 0x80.
C20_ApplyModKeyOr ==
    /\ (cin # <<>> /\ cin.fn = "applyModKey" /\ cpc # "start") =>
          /\ IsOrOf(cmid.modKey, cin.action.modKey, cin.bits)
          /\ SameButModKey(cmid, cin.action)
          /\ cpc = "done" => cout = cmid
    /\ (cin # <<>> /\ cin.fn = "modifier" /\ cpc = "done") =>
          /\ IsOrOf(cout.modKey, cin.action.modKey, ModKeyBits[cin.name])
          /\ SameButModKey(cout, cin.action)

C20_Witness ==
    /\ cin # <<>> /\ cin.fn = "applyModKey" /\ cpc = "done"
    /\ cin.action = [keyCode |-> 4, modKey |-> 85] /\ cin.bits = 51
    /\ cmid = [keyCode |-> 4, modKey |-> 119]
    /\ cout = cmid

\* ---------------------------------------------------- session state claims
\* C18: readInfo performs exactly one write, the zero-padded request
\* [0x03,0xfb,0xfb,0xfb], followed by exactly one read; it returns {keys:
\* response byte 2, knobs: response byte 3} and afterwards the session's info
\* equals the returned value; if the read is empty it fails and the session's
\* info and layers are unchanged.
C18_ReadInfoLog ==
    op = "readInfo" =>
        /\ Len(hidLog) \in 1..2
        /\ IsWrite(hidLog[1], <<3, 251, 251, 251>>)
        /\ (pc # "done") = (Len(hidLog) = 1)
        /\ Len(hidLog) = 2 =>
              /\ IsRead(hidLog[2])
              /\ hidLog[2].ret = <<>> => ~result.ok
              /\ hidLog[2].ret # <<>> =>
                    /\ result = Ok([keys |-> hidLog[2].ret[3], knobs |-> hidLog[2].ret[4]])
                    /\ info = result.val

C18_ReadInfoStep ==
    op' = "readInfo" =>
        /\ layers' = layers
        /\ info' # info => (pc' = "done" /\ result'.ok)
        /\ (pc' = "done" /\ ~result'.ok) => info' = info

C18_ReadInfo == []C18_ReadInfoLog /\ [][C18_ReadInfoStep]_vars

C18_Witness ==
    /\ op = "readInfo" /\ pc = "done" /\ result.ok
    /\ Len(hidLog) = 2
    /\ info = [keys |-> 2, knobs |-> 1]
    /\ layers = 2

\* C19: a new session has layers = 3 and info = {keys: 0, knobs: 0}; after any
\* sequence of setLayers, setInfo and readInfo calls, layers equals the last
\* value set (3 if none) and info equals the last value set or read; setLayers
\* leaves info unchanged, setInfo and readInfo leave layers unchanged, and
\* getKeyCount() always equals info.keys + 3*info.knobs (11 for keys=2, knobs=3).
C19_SessionState ==
    /\ calls = 0 => (layers = 3 /\ info = [keys |-> 0, knobs |-> 0])
    /\ getKeyCount(info) = info.keys + 3 * info.knobs
    /\ getKeyCount([keys |-> 2, knobs |-> 3]) = 11

C19_SessionStep ==
    /\ (calls' # calls /\ op' = "setLayers") => (layers' = result'.val /\ info' = info)
    /\ (calls' # calls /\ op' = "setInfo") =>
          (info' = [keys |-> result'.val.keys, knobs |-> result'.val.knobs] /\ layers' = layers)
    /\ ~(calls' # calls /\ op' = "setLayers") => layers' = layers
    /\ ~(calls' # calls /\ op' = "setInfo") =>
          \/ info' = info
          \/ op' = "readInfo" /\ result'.ok /\ info' = result'.val

C19_Session == []C19_SessionState /\ [][C19_SessionStep]_vars

C19_Witness ==
    /\ op = "setLayers" /\ layers = 1
    /\ info = [keys |-> 2, knobs |-> 1]
    /\ calls = 3

\* ------------------------------------------------------- modifier name claims
\* C21 (as claimed): createModKey(names) returns undefined if and only if at
\* least one element of names is not one of the eight modifier names, and
\* otherwise returns the OR of the named bits (0 for the empty list); for every
\* m in 0..255, createModKey(getModKeyNames(m)) = m.
C21_CreateModKey ==
    /\ (cin # <<>> /\ cin.fn = "createModKey" /\ cpc = "done") =>
          LET unknown == \E i \in 1..Len(cin.names) : cin.names[i] \notin DOMAIN ModKeyBits IN
          /\ (cout = [undefined |-> TRUE]) = unknown
          /\ ~unknown =>
                /\ cout.defined \in 0..255
                /\ \A b \in 0..7 :
                      (Bit(cout.defined, b) = 1) =
                          (\E i \in 1..Len(cin.names) : ModKeyBits[cin.names[i]] = 2 ^ b)
    /\ (cin # <<>> /\ cin.fn = "modKeyRoundTrip" /\ cpc = "done") => cout = [defined |-> cin.m]

\* --------------------------------------------------------------- cli claims
\* C22 (as claimed): resolveKeyId(info, options): when keyId is given it
\* returns keyId if 1 <= keyId <= info.keys + 3*info.knobs (knob options are
\* then ignored) and throws ConfigurationError otherwise; when keyId is absent
\* it returns getKeyIdForKnob(info, knobId, action) if both knobId and
\* knobAction are given, knobAction names Left, Click or Right and 1 <= knobId
\* <= info.knobs, and throws ConfigurationError in every other case.
C22_ResolveKeyId ==
    (cin # <<>> /\ cin.fn = "resolveKeyId" /\ cpc = "done") =>
        LET o == cin.options
            keys == cin.info.keys
            knobs == cin.info.knobs
        IN  IF "keyId" \in DOMAIN o
            THEN IF 1 <= o.keyId /\ o.keyId <= keys + 3 * knobs
                 THEN cout = [ok |-> TRUE, val |-> o.keyId]
                 ELSE cout = [ok |-> FALSE, err |-> "ConfigurationError"]
            ELSE IF /\ "knobId" \in DOMAIN o /\ "knobAction" \in DOMAIN o
                    /\ o.knobAction \in {"Left", "Click", "Right"}
                    /\ 1 <= o.knobId /\ o.knobId <= knobs
                 THEN cout = [ok |-> TRUE,
                              val |-> 1 + keys + 3 * (o.knobId - 1)
                                        + (CHOOSE a \in 0..2 : KnobActionNames[a + 1] = o.knobAction)]
                 ELSE cout = [ok |-> FALSE, err |-> "ConfigurationError"]

\* the names of a token n1+n2+...+nk, or <<>> if the token is not of that form
TokenNames(token) ==
    IF /\ Len(token) % 2 = 1
       /\ \A i \in 1..Len(token) : (token[i] = "+") = (i % 2 = 0)
       /\ \A i \in 1..Len(token) : token[i] # " "
    THEN [i \in 1..((Len(token) + 1) \div 2) |-> token[2 * i - 1]]
    ELSE <<>>

TokenModifiers(token) ==
    { TokenNames(token)[i] : i \in 1..(Len(TokenNames(token)) - 1) }

TokenAction(token) == TokenNames(token)[Len(TokenNames(token))]

\* the kind of action a token names, "none" if it names none
TokenKind(token) ==
    IF TokenNames(token) = <<>> \/ ~(TokenModifiers(token) \subseteq DOMAIN ModKeyBits) THEN "none"
    ELSE IF TokenAction(token) \in DOMAIN keyRecord THEN "key"
    ELSE IF TokenAction(token) \in DOMAIN mouseRecord THEN "mouse"
    ELSE IF TokenAction(token) \in DOMAIN mediaRecord /\ TokenModifiers(token) = {} THEN "consumer"
    ELSE "none"

\* the mask with exactly the bits of the token's modifiers
TokenModKey(token) ==
    CHOOSE r \in 0..255 :
        \A n \in DOMAIN ModKeyBits :
            (IsOrOf(r, r, ModKeyBits[n])) = (n \in TokenModifiers(token))

TokenValue(token) ==
    IF TokenKind(token) = "key"
    THEN [keyCode |-> keyRecord[TokenAction(token)].keyCode, modKey |-> TokenModKey(token)]
    ELSE IF TokenKind(token) = "mouse"
    THEN [mouseRecord[TokenAction(token)] EXCEPT !.modKey = TokenModKey(token)]
    ELSE mediaRecord[TokenAction(token)]

\* C23 (as claimed): parseKeyMapFromKeyText(text) splits text on whitespace
\* and parses each token as modifier names joined by '+' followed by one
\* action name (key action first, then mouse, then consumer; a consumer
\* action accepts no modifier); it returns a keys KeyMap of all tokens in
\* order when every token is a key action, a mouse KeyMap for exactly one
\* mouse token, a consumer KeyMap for exactly one consumer token, and throws
\* ConfigurationError for an empty token, an unknown modifier or action name,
\* a mix of kinds, or more than one mouse or consumer token.
C23_ParseKeyMapFromKeyText ==
    (cin # <<>> /\ cin.fn = "parseKeyMapFromKeyText" /\ cpc = "done") =>
        LET tokens == SplitWhitespace(cin.text) IN
        IF \A i \in 1..Len(tokens) : TokenKind(tokens[i]) = "key"
        THEN cout = [ok |-> TRUE,
                     val |-> [type |-> 1,
                              keys |-> [i \in 1..Len(tokens) |-> TokenValue(tokens[i])]]]
        ELSE IF Len(tokens) = 1 /\ TokenKind(tokens[1]) = "mouse"
        THEN cout = [ok |-> TRUE, val |-> [type |-> 3, mouse |-> TokenValue(tokens[1])]]
        ELSE IF Len(tokens) = 1 /\ TokenKind(tokens[1]) = "consumer"
        THEN cout = [ok |-> TRUE, val |-> [type |-> 2, consumer |-> TokenValue(tokens[1])]]
        ELSE cout = [ok |-> FALSE, err |-> "ConfigurationError"]

PackablePositions(table) ==
    { p \in (1..Len(table)) \X (1..MaxDefs + 1) :
        /\ p[2] <= Len(table[p[1]])
        /\ table[p[1]][p[2]] # [kind |-> "null"]
        /\ IsKnownKeyMap(createKeyMapFromActionDef(table[p[1]][p[2]])) }

TableFits(table, layerCount, keyCount) ==
    /\ Len(table) >= 1 /\ Len(table) <= layerCount
    /\ \A l \in 1..Len(table) : Len(table[l]) <= keyCount

C26_StoredByKeyId ==
    (op = "readKeyMapTable" /\ pc = "done" /\ result.ok) =>
        LET count == loc.info.keys + 3 * loc.info.knobs
            Replaced(p) ==
                \E q \in (p + 1)..Len(hidLog) :
                    /\ ExchangeOf(q, count) = ExchangeOf(p, count)
                    /\ hidLog[q].ret[3] = hidLog[p].ret[3]
        IN  \A p \in 1..Len(hidLog) :
                (PlaceOf(p, count) > 0 /\ ~Replaced(p)) =>
                    LET response == hidLog[p].ret
                        list == result.val[ExchangeOf(p, count)]
                    IN  /\ (response[3] - 1) \in DOMAIN list
                        /\ list[response[3] - 1] = unpackKeyMapWithId(response).val.keyMap

\* a layer whose two responses arrived in descending key order
C26_Witness ==
    /\ op = "readKeyMapTable" /\ pc = "done" /\ result.ok
    /\ loc.info.keys + 3 * loc.info.knobs = 2
    /\ Len(hidLog) >= 3
    /\ hidLog[2].ret[3] = 2 /\ hidLog[3].ret[3] = 1
    /\ DOMAIN result.val[1] = {0, 1}
    /\ result.val[1][0] = unpackKeyMapWithId(hidLog[3].ret).val.keyMap
    /\ result.val[1][1] = unpackKeyMapWithId(hidLog[2].ret).val.keyMap
    /\ result.val[1][0] # result.val[1][1]

\* C30 (as claimed): whenever readKeypadKeyMaps returns successfully for
\* (keys, knobs), the list has exactly keys + 3*knobs entries with every index
\* filled (no holes, no overwritten duplicates, nothing outside the range),
\* whatever keyId values the responses carry.
C30_ListComplete ==
    (op = "readKeyMapTable" /\ pc = "done" /\ result.ok) =>
        \A e \in 1..Len(result.val) :
            DOMAIN result.val[e] = 0..(loc.info.keys + 3 * loc.info.knobs - 1)

\* C29 (as claimed): every response an operation consumes was sent in answer
\* to that operation's own request; no operation consumes a response that an
\* earlier operation (an aborted readKeyMapTable, say) left unread.
C29_OwnResponses ==
    [][(op \in {"readInfo", "readKeyMapTable"} /\ Len(rx') < Len(rx)) => ~Head(rx).stale]_vars

\* ------------------------------------------------------------ setKeyMap claims
\* C27 (as claimed): for every keyId that resolveKeyId accepts, that is
\* 1 <= keyId <= getKeyCount(info) including the last slot, setKeyMap packs
\* the keymap and writes it instead of rejecting the key id.
C27_SetKeyMapLastSlot ==
    (/\ op = "setKeyMap"
     /\ "keyId" \in DOMAIN loc.options
     /\ 1 <= loc.options.keyId /\ loc.options.keyId <= info.keys + 3 * info.knobs
     /\ loc.keys = <<"A">>) =>
        /\ result # [ok |-> FALSE, err |-> "ConfigurationError"]
        /\ Len(hidLog) = 1
        /\ IsWrite(hidLog[1], <<3, 253, loc.options.keyId, loc.options.layerId,
                                1, 0, 0, 0, 0, 0, 1, 0, 4>>)

\* C28 (as claimed): for the map command given --knob-id k and --knob-action
\* Left, Click or Right and no --key-id, the value the option parser produces
\* for --knob-action is accepted by resolveKeyId, and setKeyMap resolves key
\* id 1 + keys + 3*(k - 1) + actionIndex instead of failing with
\* ConfigurationError.
C28_KnobActionOption ==
    (/\ op = "setKeyMap"
     /\ DOMAIN loc.options = {"layerId", "knobId", "knobAction"}
     /\ 1 <= loc.options.knobId /\ loc.options.knobId <= info.knobs
     /\ loc.options.knobAction \in {"0", "1", "2"}
     /\ loc.keys = <<"A">>) =>
        LET actionIndex == CHOOSE n \in 0..2 : <<"0", "1", "2">>[n + 1] = loc.options.knobAction
            keyId == 1 + info.keys + 3 * (loc.options.knobId - 1) + actionIndex
        IN  /\ result # [ok |-> FALSE, err |-> "ConfigurationError"]
            /\ Len(hidLog) = 1
            /\ IsWrite(hidLog[1], <<3, 253, keyId, loc.options.layerId,
                                    1, 0, 0, 0, 0, 0, 1, 0, 4>>)

====
